---------------------------- MODULE Spec2Model ----------------------------
(***************************************************************************)
(* raspihats: the I2C-HAT frame codec (I2CFrame / Frame), the bounded-retry *)
(* transport (I2CHat._transfer_) under the process-wide bus lock, the       *)
(* construction-time checks of I2CHat, the register operations built on the *)
(* transport and the watchdog feed thread, as state machines.               *)
(*                                                                          *)
(*   Spec        one caller issuing requests on peripheral handles          *)
(*   SpecThreads two callers issuing requests at the same time              *)
(*   SpecLock    two callers waiting for the lock, each scheduled fairly    *)
(*   SpecTries   one caller, any number_of_tries, scheduled fairly          *)
(*   SpecTimes   handles of i2c_hats/_base.py, which keep a transfer time   *)
(*   SpecIds     the frame id over many requests, counter near its wrap     *)
(*   SpecCodec   the codec: construct, encode, corrupt one byte, decode     *)
(*   SpecCtor    I2CHat.__init__: address validation and board-name check   *)
(*   SpecOps     u32, channel and counter operations, any response payload  *)
(*   SpecRejects channel operations with bad arguments, then good ones      *)
(*   SpecSim     digital outputs against a peripheral simulator             *)
(*   SpecSimU32  a u32 set and get against a peripheral simulator           *)
(*   SpecBoards  the board classes of raspihats.i2c_hats being built        *)
(*   SpecFeeder  the watchdog feed thread and its owner                     *)
(*   SpecFeederFair  the same, the started thread being scheduled           *)
(*   SpecWatchdog    the watchdog operations of a handle and its thread     *)
(***************************************************************************)
EXTENDS Integers, Sequences, FiniteSets, TLC

VARIABLES
    \* ---- class state of I2CHat ----
    i2c_bus,        \* TRUE when I2CHat.i2c_bus is an SMBus, FALSE when None
    i2c_bus_lock,   \* the caller holding I2CHat.i2c_bus_lock, 0 when free
    \* ---- peripheral handles (I2CHat objects) ----
    hats,           \* per handle: [built, address, frame_id] and, as
                    \* history, the calls of _request_frame_ so far
                    \* (issued) and the frames they built (outbound)
    \* ---- the peripheral behind the bus, when the bus is a simulator ----
    periph,         \* [do, u32, ans]: output states, the u32 last set,
                    \* answer to the last request
    \* ---- caller threads ----
    threads,        \* the caller threads that exist
    scenario,       \* [requests, tries, programs, calls]: what the callers call;
                    \* [faults, bus]: how the bus behaves; fixed by Init
    pc,             \* per caller: where it stands in its call
    loc,            \* per caller: the local variables of its call and,
                    \* as history, the bus calls of its transfer (log)
    ncalls,         \* calls started so far
    last,           \* what the step just taken handed a caller, or NoCall
    \* ---- codec scenario (SpecCodec) ----
    cargs,      \* the constructor arguments under test: [id, cmd, data]
    cframe,     \* the frame object built from them, or NoFrame
    cerr,       \* the exception the last codec call raised, or "none"
    craw,       \* the raw bytes handed to decode, or <<>>
    cmut,       \* position of the byte changed in craw, 0 when none was
    cstep,      \* "args" | "built" | "encoded" | "decoded"
    \* ---- the watchdog feed thread (SpecFeeder) ----
    feeder      \* [pc, cmd_queue, ex_queue, run_flag, feed_period] and, as
                \* history, the feeds made and failed, the commands put
                \* before start() (early; pre of them still queued) and
                \* the stop commands put after it (late), the stop
                \* commands taken by the loop (stops), and whether the
                \* loop took a command put before start() (acted)

cvars == <<cargs, cframe, cerr, craw, cmut, cstep>>

tvars == <<i2c_bus, i2c_bus_lock, hats, periph, threads, scenario, pc, loc,
          ncalls, last>>

vars == <<i2c_bus, i2c_bus_lock, hats, periph, threads, scenario, pc, loc,
          ncalls, last, cargs, cframe, cerr, craw, cmut, cstep, feeder>>

-----------------------------------------------------------------------------
(* Bounds of the model *)

\* longest payload the codec scenario builds
MaxPayload == 2

\* largest number_of_tries a caller passes, and calls made in one run
MaxTries == 3
MaxCalls == 3

-----------------------------------------------------------------------------
(* Values *)

NoFrame == [id |-> -1, cmd |-> -1, data |-> <<>>]

MkFrame(i, c, d) == [id |-> i, cmd |-> c, data |-> d]

Last(s) == s[Len(s)]

\* Python data[a:b] on a list, 0-based, b exclusive, 0 <= a
Slice(s, a, b) == IF b <= a THEN <<>> ELSE SubSeq(s, a + 1, b)

SeqsUpTo(S, n) == UNION {[1..k -> S] : k \in 0..n}

-----------------------------------------------------------------------------
(* crc16: Modbus CRC16, seed 0xFFFF, reflected, polynomial 0xA001 *)

RECURSIVE BitXor(_, _)
BitXor(a, b) ==
    IF a = 0 THEN b
    ELSE IF b = 0 THEN a
    ELSE (((a % 2) + (b % 2)) % 2) + 2 * BitXor(a \div 2, b \div 2)

\* x ^ 0xA001 for x < 2^15: bit 15 is set, bits 13 and 0 are flipped
XorPoly(x) ==
    LET a == IF x % 2 = 1 THEN x - 1 ELSE x + 1
        b == IF (a \div 8192) % 2 = 1 THEN a - 8192 ELSE a + 8192
    IN  b + 32768

\* (each step hands its result on as a value, through a one-element set,
\* so that it is computed once however often the next step reads it)
RECURSIVE CrcShift(_, _)
CrcShift(crc, n) ==
    IF n = 0 THEN crc
    ELSE CHOOSE r \in
            {CrcShift(c, n - 1) :
                c \in {IF crc % 2 = 1 THEN XorPoly(crc \div 2)
                       ELSE crc \div 2}} : TRUE

RECURSIVE CrcFold(_, _, _)
CrcFold(crc, s, i) ==
    IF i > Len(s) \/ crc < 0 THEN crc
    ELSE CHOOSE r \in
            {CrcFold(c, s, i + 1) : c \in {CrcShift(BitXor(crc, s[i]), 8)}} :
            TRUE

calc(s) == CHOOSE r \in {CrcFold(65535, v, 1) : v \in {s}} : TRUE

-----------------------------------------------------------------------------
(* I2CFrame (_i2c_frame.py) and Frame (i2c_hats/_frame.py) *)

\* __check_uint8 on a list: TRUE when no ValueError is raised
check_uint8(s) == \A k \in 1..Len(s) : 0 <= s[k] /\ s[k] <= 255

\* I2CFrame.__init__: the three checks, then the fields are set
I2CFrame_init(i, c, d) ==
    IF check_uint8(<<i>>) /\ check_uint8(<<c>>) /\ check_uint8(d)
    THEN [err |-> "none", frame |-> MkFrame(i, c, d)]
    ELSE [err |-> "ValueError", frame |-> NoFrame]

\* The commands Command(cmd) accepts
CommandValues == (16..22) \cup (32..36) \cup (48..55)

\* Frame.__init__ of i2c_hats/_frame.py: id and data are stored as given,
\* Command(cmd) raises ValueError for a value that is no command
Frame_init(i, c, d) ==
    IF c \in CommandValues
    THEN [err |-> "none", frame |-> MkFrame(i, c, d)]
    ELSE [err |-> "ValueError", frame |-> NoFrame]

EncodeSwapped(f) ==
    LET data == <<f.id, f.cmd>> \o f.data
        crc  == calc(data)
    IN  data \o <<(crc \div 256) % 256, crc % 256>>

\* I2CFrame.encode
encode(f) ==
    LET data == <<f.id, f.cmd>> \o f.data
    IN  CHOOSE r \in {data \o <<crc % 256, (crc \div 256) % 256>> :
                        crc \in {calc(data)}} : TRUE

DecodeIdFirst(f, data) ==
    IF ~check_uint8(data) THEN [err |-> "ValueError", frame |-> f]
    ELSE IF f.id # data[1]
    THEN [err |-> "unexpected Id", frame |-> f]
    ELSE IF f.cmd # data[2]
    THEN [err |-> "unexpected Command", frame |-> f]
    ELSE IF calc(Slice(data, 0, Len(data) - 2))
                # Last(data) * 256 + data[Len(data) - 1]
    THEN [err |-> "Crc check failed", frame |-> f]
    ELSE [err |-> "none",
          frame |-> [f EXCEPT !.data = Slice(data, 2, Len(data) - 2)]]

DecodeNoEcho(f, data) ==
    IF ~check_uint8(data) THEN [err |-> "ValueError", frame |-> f]
    ELSE IF calc(Slice(data, 0, Len(data) - 2))
                # Last(data) * 256 + data[Len(data) - 1]
    THEN [err |-> "Crc check failed", frame |-> f]
    ELSE [err |-> "none",
          frame |-> [f EXCEPT !.data = Slice(data, 2, Len(data) - 2)]]

\* I2CFrame.decode on a frame pre-seeded with id and cmd; data has at least
\* 2 bytes (every caller hands it 2 + n + 2)
decode(f, data) ==
    IF ~check_uint8(data) THEN [err |-> "ValueError", frame |-> f]
    ELSE IF calc(Slice(data, 0, Len(data) - 2))
                # Last(data) * 256 + data[Len(data) - 1]
    THEN [err |-> "Crc check failed", frame |-> f]
    ELSE IF f.id # data[1]
    THEN [err |-> "unexpected Id", frame |-> f]
    ELSE IF f.cmd # data[2]
    THEN [err |-> "unexpected Command", frame |-> f]
    ELSE [err |-> "none",
          frame |-> [f EXCEPT !.data = Slice(data, 2, Len(data) - 2)]]

-----------------------------------------------------------------------------
(* I2CHat: commands, handles, callers *)

\* caller threads and peripheral handles (I2CHat objects)
Callers == {1, 2}
Hats == {1, 2}

\* Command values
GET_BOARD_NAME == 16
RESET == 19
DI_GET_CHANNEL_STATE == 33
DI_RESET_ALL_COUNTERS == 36

\* self.__frame_id = 0x1F - 1
FirstFrameId == 30

\* number_of_tries = 5, the default of _transfer_
DefaultTries == 5

\* the payload size the name property asks for
NameSize == 25

\* base_address=None, board_name=None
NoBase == -1
NoName == <<-1>>

\* "Di16" as character codes: the expected board name of the scenario
Di16Name == <<68, 105, 49, 54>>

\* self.__transfer_time = None
NoTime == 0

NoHat == [built |-> FALSE, address |-> 0, frame_id |-> 0, issued |-> 0,
          outbound |-> 0, cls |-> "none", transfer_time |-> NoTime]

\* the local variables of one call (of _transfer_ and of the operation
\* around it); writes, reads and sleeps count the bus writes, bus reads and
\* backoff sleeps of the running _transfer_; ids holds the id byte of each
\* bus write; nth and nout tell the how-manieth call of _request_frame_ on
\* the handle, and the how-manieth frame built, the request is; cur is the
\* operation running, index its resolved channel, prog the operations the
\* caller makes after it, hist what the ones before it came to
IdleLoc ==
    [op |-> "none", hat |-> 0, cmd |-> 0, data |-> <<>>, rsize |-> 0,
     rexp |-> TRUE, n |-> 0, tmp |-> 0, req |-> NoFrame,
     try_cnt |-> 0, exceptions |-> <<>>, raw |-> <<>>,
     out |-> "pending", resp |-> NoFrame,
     writes |-> 0, reads |-> 0, sleeps |-> 0,
     ids |-> <<>>, nth |-> 0, nout |-> 0,
     cur |-> [name |-> "none", cls |-> "none", cmd |-> 0,
              ref |-> [kind |-> "int", i |-> 0, s |-> <<>>], arg |-> 0,
              val |-> 0, wide |-> [hi |-> 0, lo |-> 0]],
     prog |-> <<>>, index |-> -1, hist |-> <<>>, before |-> <<>>,
     cls |-> "none", address |-> 0, base |-> NoBase, bname |-> NoName,
     names |-> 0, got |-> NoName, log |-> <<>>, message |-> <<>>]

\* the feed thread before start(): its queues are empty
FeederOff ==
    [pc |-> "new", cmd_queue |-> <<>>, ex_queue |-> <<>>, run_flag |-> FALSE,
     feed_period |-> 0, feeds |-> 0, failed |-> 0, fed |-> 0, puts |-> 0,
     early |-> 0, pre |-> 0, late |-> 0, stops |-> 0, acted |-> FALSE,
     iters |-> 0, limit |-> 0, flimit |-> 0]

FeederIdle == feeder = FeederOff

NoCall == [caller |-> 0, result |-> "none", l |-> IdleLoc]

\* Python a & b for b >= 0 (a may be negative: two's complement)
RECURSIVE BitAnd(_, _)
BitAnd(a, b) ==
    IF b = 0 THEN 0
    ELSE ((a % 2) * (b % 2)) + 2 * BitAnd(a \div 2, b \div 2)

\* a in b for two strings (character sequences)
IsInfix(a, b) ==
    \E i \in 0..(Len(b) - Len(a)) : SubSeq(b, i + 1, i + Len(a)) = a

-----------------------------------------------------------------------------
(* The operations on top of _transfer_: u32 values, channels, counters *)

CWDT_SET_PERIOD == 20
CWDT_GET_PERIOD == 21
DI_GET_COUNTER == 34
DI_RESET_COUNTER == 35
DO_SET_CHANNEL_STATE == 54
DO_GET_CHANNEL_STATE == 55

LowerIdentity(s) == s

\* str.lower() on character codes
Lower(s) ==
    [k \in 1..Len(s) |-> IF 65 <= s[k] /\ s[k] <= 90 THEN s[k] + 32 ELSE s[k]]

\* list.index(x), 0-based; -1 stands for its ValueError
IndexOf(x, s) ==
    IF \E k \in 1..Len(s) : s[k] = x
    THEN (CHOOSE k \in 1..Len(s) : s[k] = x /\ \A j \in 1..(k - 1) : s[j] # x) - 1
    ELSE -1

\* a channel reference: an int or a str (as character codes)
IntRef(i) == [kind |-> "int", i |-> i, s |-> <<>>]
StrRef(s) == [kind |-> "str", i |-> 0, s |-> s]

\* the labels of the module of the scenario: "Di1", "Di2", "DI3"
ChannelLabels == <<(<<68, 105, 49>>), (<<68, 105, 50>>), (<<68, 73, 51>>)>>

\* I2CHatModule._validate_channel_index (_i2c_hat.py), labels given
validate_channel_index(labels, ref) ==
    IF ref.kind = "int"
    THEN IF 0 <= ref.i /\ ref.i < Len(labels)
         THEN [err |-> "none", index |-> ref.i]
         ELSE [err |-> "ValueError: not a valid channel index", index |-> -1]
    ELSE LET k == IndexOf(Lower(ref.s),
                          [j \in 1..Len(labels) |-> Lower(labels[j])])
         IN  IF k >= 0 THEN [err |-> "none", index |-> k]
             ELSE [err |-> "ValueError: not a valid channel label",
                   index |-> -1]

\* __di_check_channel_index_or_label__ / __do_check_channel_index_or_label__
\* (i2c_hat_modules.py)
check_channel_index_or_label(labels, ref) ==
    IF ref.kind = "int"
    THEN IF 0 <= ref.i /\ ref.i < Len(labels)
         THEN [err |-> "none", index |-> ref.i]
         ELSE [err |-> "IndexError: invalid channel index", index |-> -1]
    ELSE LET k == IndexOf(Lower(ref.s),
                          [j \in 1..Len(labels) |-> Lower(labels[j])])
         IN  IF k >= 0 THEN [err |-> "none", index |-> k]
             ELSE [err |-> "ValueError: invalid channel label", index |-> -1]

\* the channel check of the class the operation belongs to
ResolveChannel(cls, ref) ==
    IF cls = "_digital" THEN validate_channel_index(ChannelLabels, ref)
    ELSE check_channel_index_or_label(ChannelLabels, ref)

\* a Python int that may take more than 31 bits, as the two halves of
\* hi * 2^16 + lo with 0 <= lo < 2^16 (hi is any integer)
Wide(hi, lo) == [hi |-> hi, lo |-> lo]

U32BytesBigEndian(v) ==
    <<BitAnd(v.hi \div 256, 255), BitAnd(v.hi, 255),
      BitAnd(v.lo \div 256, 255), BitAnd(v.lo, 255)>>

U32BytesUnmasked(v) ==
    <<BitAnd(v.lo, 255), BitAnd(v.lo \div 256, 255), BitAnd(v.hi, 255),
      v.hi \div 256>>

\* [value & 0xFF, (value >> 8) & 0xFF, (value >> 16) & 0xFF,
\*  (value >> 24) & 0xFF]
U32Bytes(v) ==
    <<BitAnd(v.lo, 255), BitAnd(v.lo \div 256, 255), BitAnd(v.hi, 255),
      BitAnd(v.hi \div 256, 255)>>

LittleEndianMixed(d, k) ==
    Wide(d[k + 4] + d[k + 3] * 256, d[k + 1] + d[k + 2] * 256)

\* d[k] + (d[k+1] << 8) + (d[k+2] << 16) + (d[k+3] << 24), k 0-based
LittleEndian(d, k) ==
    Wide(d[k + 3] + d[k + 4] * 256, d[k + 1] + d[k + 2] * 256)

StateOfEcho(data) == data[1] > 0

\* return data[1] > 0
StateOf(data) == data[2] > 0

\* raise I2CHatResponseException('unexpected format'): _digital.py does
\* not import the name, so the raise statement raises NameError there
UnexpectedFormat(cls) ==
    IF cls = "_digital" THEN "NameError: I2CHatResponseException"
    ELSE "I2CHatResponseException: unexpected format"

\* channel != data[0] with the channel as the caller gave it: a str never
\* equals an int
RawEquals(ref, b) == ref.kind = "int" /\ ref.i = b

\* an operation as a caller calls it: its name, the class it is taken from,
\* the command, the channel reference and the arguments
\* (val: a small int argument; wide: the value of _set_u32_value_)
OpIn(name, cls, cmd, ref, arg, val) ==
    [name |-> name, cls |-> cls, cmd |-> cmd, ref |-> ref, arg |-> arg,
     val |-> val, wide |-> Wide(0, 0)]

SetU32In(cmd, v) ==
    [OpIn("set_u32", "_i2c_hat", cmd, IntRef(0), 0, 0) EXCEPT !.wide = v]

ResetValuePositive(value) == value > 0

\* if value != 0: raise ValueError("only '0' is valid, ...")
ResetValueRefused(value) == value # 0

\* the operation up to its call of _request_frame_: the error it raises
\* before, or the command, payload and response size it asks for
Prepare(in) ==
    LET r == ResolveChannel(in.cls, in.ref)
        bad == [err |-> r.err, index |-> -1, cmd |-> 0, data |-> <<>>,
                rsize |-> 0]
        ask(data, rsize) == [err |-> "none", index |-> r.index,
                             cmd |-> in.cmd, data |-> data, rsize |-> rsize]
    IN  CASE in.name = "get_u32" ->
                [ask(<<>>, 4) EXCEPT !.index = -1]
          [] in.name \in {"set_u32", "set_period"} ->
                [ask(U32Bytes(in.wide), 4) EXCEPT !.index = -1]
          [] in.name = "get_state" ->
                IF r.err # "none" THEN bad ELSE ask(<<r.index>>, 2)
          [] in.name = "set_state" ->
                IF r.err # "none" THEN bad ELSE ask(<<r.index, in.val>>, 2)
          [] in.name = "get_counter" ->
                IF r.err # "none" THEN bad ELSE ask(<<r.index, in.arg>>, 6)
          [] in.name = "reset_counter" ->
                IF r.err # "none" THEN bad
                ELSE IF in.cls = "_digital" /\ ResetValueRefused(in.val)
                THEN [bad EXCEPT !.err = "ValueError: only '0' is valid",
                                 !.index = r.index]
                ELSE ask(<<r.index, in.arg>>, 2)

\* the operation after _transfer_ has returned the frame with payload data:
\* the error it raises, or what it returns (ret: an int, retb: a bool)
Conclude(in, index, sent, data) ==
    LET bad == [err |-> UnexpectedFormat(in.cls), ret |-> Wide(0, 0),
                retb |-> FALSE]
        ok(ret, retb) == [err |-> "none", ret |-> ret, retb |-> retb]
        same(b) == IF in.cls = "_digital" THEN index = b
                   ELSE RawEquals(in.ref, b)
    IN  CASE in.name = "get_u32" ->
                IF Len(data) # 4 THEN bad ELSE ok(LittleEndian(data, 0), FALSE)
          [] in.name \in {"set_u32", "set_period"} ->
                IF sent # data THEN bad ELSE ok(Wide(0, 0), FALSE)
          [] in.name = "get_state" ->
                IF Len(data) # 2 \/ data[1] # index THEN bad
                ELSE ok(Wide(0, 0), StateOf(data))
          [] in.name = "set_state" ->
                IF sent # data THEN bad ELSE ok(Wide(0, 0), FALSE)
          [] in.name = "get_counter" ->
                IF Len(data) # 6 \/ ~same(data[1]) \/ in.arg # data[2] THEN bad
                ELSE ok(LittleEndian(data, 2), FALSE)
          [] in.name = "reset_counter" ->
                IF Len(data) # 2 \/ ~same(data[1]) \/ in.arg # data[2] THEN bad
                ELSE ok(Wide(0, 0), FALSE)

\* how an operation of a caller's program came out
Outcome(in, index, sent, c, l) ==
    [cur |-> in, index |-> index, sent |-> sent, err |-> c.err,
     ret |-> c.ret, retb |-> c.retb, nth |-> l.nth, writes |-> l.writes]

-----------------------------------------------------------------------------
(* A peripheral simulator that stores and echoes the last-set output state *)

Channels == 0..(Len(ChannelLabels) - 1)

PeriphOff ==
    [do |-> [c \in Channels |-> FALSE], u32 |-> <<0, 0, 0, 0>>, ans |-> <<>>]

\* the simulator takes a request frame: a set stores the state and is
\* echoed, a get is answered with the stored state; the four bytes of a
\* u32 set are stored and echoed, a u32 get is answered with them
SimWrite(p, req) ==
    IF req.cmd = DO_SET_CHANNEL_STATE /\ Len(req.data) = 2
           /\ req.data[1] \in Channels
    THEN [p EXCEPT !.do = [p.do EXCEPT ![req.data[1]] = req.data[2] > 0],
                   !.ans = req.data]
    ELSE IF req.cmd = CWDT_SET_PERIOD /\ Len(req.data) = 4
    THEN [p EXCEPT !.u32 = req.data, !.ans = req.data]
    ELSE IF req.cmd = CWDT_GET_PERIOD /\ req.data = <<>>
    THEN [p EXCEPT !.ans = p.u32]
    ELSE IF req.cmd = DO_GET_CHANNEL_STATE /\ Len(req.data) = 1
           /\ req.data[1] \in Channels
    THEN [p EXCEPT !.ans = <<req.data[1],
                             IF p.do[req.data[1]] THEN 1 ELSE 0>>]
    ELSE [p EXCEPT !.ans = <<>>]

-----------------------------------------------------------------------------
(* The bus: what read_i2c_block_data can hand back *)

\* payloads a peripheral may answer an operation with: well-formed ones,
\* ones that echo another channel, counter type or value, and ones of
\* another length
Answers(l) ==
    LET d == l.data
        i == IF Len(d) >= 1 THEN d[1] ELSE 0
        j == (i + 1) % 256
        c == IF Len(d) >= 2 THEN d[2] ELSE 0
    IN  CASE l.cur.name = "get_u32" ->
                {<<0, 0, 0, 0>>, <<1, 2, 3, 4>>, <<255, 255, 255, 255>>}
                \cup {[k \in 1..n |-> 1] : n \in (0..10) \ {4}}
          [] l.cur.name \in {"set_u32", "set_period"} ->
                {d, [d EXCEPT ![1] = (@ + 1) % 256], SubSeq(d, 1, 3),
                 d \o <<0>>}
          [] l.cur.name = "get_state" ->
                {<<i, 0>>, <<i, 1>>, <<i, 255>>, <<j, 1>>, <<i>>, <<i, 1, 0>>}
          [] l.cur.name = "set_state" ->
                {d, <<i, 1 - c>>, <<j, c>>, <<i>>, d \o <<0>>}
          [] l.cur.name = "get_counter" ->
                {<<i, c, 1, 2, 3, 4>>, <<i, c, 255, 255, 255, 255>>,
                 <<i, 1 - c, 1, 2, 3, 4>>, <<j, c, 1, 2, 3, 4>>,
                 <<i, c, 1, 2, 3>>, <<i, c, 1, 2, 3, 4, 5>>}
          [] l.cur.name = "reset_counter" ->
                {<<i, c>>, <<i, 1 - c>>, <<j, c>>, <<i>>, <<i, c, 0>>}

\* payload bytes a peripheral answers with
PayloadBytes == {0, 1, 3}

\* names a peripheral answers GET_BOARD_NAME with: empty, truncated, the
\* expected one, a longer one
NameSamples == {<<>>, <<68, 105>>, Di16Name, <<68, 105, 49, 54, 50>>}

Pad(s, n) == [k \in 1..n |-> IF k <= Len(s) THEN s[k] ELSE 0]

PayloadsOf(l) ==
    IF l.op \in {"op", "watchdog"}
    THEN IF scenario.bus = "sim" THEN {periph.ans} ELSE Answers(l)
    ELSE IF l.cmd = GET_BOARD_NAME
    THEN {Pad(nm, l.rsize) :
            nm \in NameSamples \cup (IF l.op = "ctor" THEN {l.bname} ELSE {})}
    ELSE [1..l.rsize -> PayloadBytes]

\* the id of the request before this one: a stale response carries it
StaleId(i) == (i + 255) % 256

OtherCmd(c) == IF c = RESET THEN GET_BOARD_NAME ELSE RESET

\* the ways the bus can misbehave
AllFaults == {"write", "read", "crc", "id", "cmd"}

\* read_i2c_block_data(address, 0xFF, size) returns size bytes: a well-formed
\* answer to this request, a well-formed answer to another request (stale id,
\* other command), or an answer with a damaged checksum
BusReads(l) ==
    LET p0 == CHOOSE p \in PayloadsOf(l) : TRUE
        ok == encode(MkFrame(l.req.id, l.req.cmd, p0))
    IN  {encode(MkFrame(l.req.id, l.req.cmd, p)) : p \in PayloadsOf(l)}
        \cup (IF "id" \in scenario.faults
              THEN {encode(MkFrame(StaleId(l.req.id), l.req.cmd, p0))}
              ELSE {})
        \cup (IF "cmd" \in scenario.faults
              THEN {encode(MkFrame(l.req.id, OtherCmd(l.req.cmd), p0))}
              ELSE {})
        \cup (IF "crc" \in scenario.faults
              THEN {[ok EXCEPT ![Len(ok)] = (ok[Len(ok)] + 1) % 256]}
              ELSE {})

-----------------------------------------------------------------------------
(* I2CHat._generate_frame_id_, _request_frame_ and _transfer_ *)

SetLoc(t, l) == loc' = [loc EXCEPT ![t] = l]
Goto(t, p) == pc' = [pc EXCEPT ![t] = p]

\* the call of caller t ends: its result is handed over
Finish(t, result, l) ==
    /\ last' = [caller |-> t, result |-> result, l |-> l]
    /\ SetLoc(t, IdleLoc)
    /\ Goto(t, "idle")

\* self.__frame_id += 1: the load
GenLoad1(t) ==
    /\ pc[t] = "gen1"
    /\ SetLoc(t, [loc[t] EXCEPT !.tmp = hats[loc[t].hat].frame_id])
    /\ Goto(t, "gen2")
    /\ last' = NoCall
    /\ UNCHANGED <<i2c_bus, periph, i2c_bus_lock, hats, threads, scenario,
                   ncalls>>
    /\ UNCHANGED <<cvars, feeder>>

\* self.__frame_id += 1: the store
GenStore1(t) ==
    /\ pc[t] = "gen2"
    /\ hats' = [hats EXCEPT ![loc[t].hat].frame_id = loc[t].tmp + 1]
    /\ Goto(t, "gen3")
    /\ last' = NoCall
    /\ UNCHANGED <<i2c_bus, periph, i2c_bus_lock, threads, scenario, loc,
                   ncalls>>
    /\ UNCHANGED <<cvars, feeder>>

\* self.__frame_id &= 0xFF: the load
GenLoad2(t) ==
    /\ pc[t] = "gen3"
    /\ SetLoc(t, [loc[t] EXCEPT !.tmp = hats[loc[t].hat].frame_id])
    /\ Goto(t, "gen4")
    /\ last' = NoCall
    /\ UNCHANGED <<i2c_bus, periph, i2c_bus_lock, hats, threads, scenario,
                   ncalls>>
    /\ UNCHANGED <<cvars, feeder>>

GenStore2NoWrap(t) ==
    /\ pc[t] = "gen4"
    /\ hats' = [hats EXCEPT ![loc[t].hat].frame_id = loc[t].tmp]
    /\ Goto(t, "gen5")
    /\ last' = NoCall
    /\ UNCHANGED <<i2c_bus, periph, i2c_bus_lock, threads, scenario, loc,
                   ncalls>>
    /\ UNCHANGED <<cvars, feeder>>

\* self.__frame_id &= 0xFF: the store
GenStore2(t) ==
    /\ pc[t] = "gen4"
    /\ hats' = [hats EXCEPT ![loc[t].hat].frame_id = BitAnd(loc[t].tmp, 255)]
    /\ Goto(t, "gen5")
    /\ last' = NoCall
    /\ UNCHANGED <<i2c_bus, periph, i2c_bus_lock, threads, scenario, loc,
                   ncalls>>
    /\ UNCHANGED <<cvars, feeder>>

\* the requests the callers of the scenario make: reset all counters, get
\* the state of channel 3, the same with a payload that is no byte, reset
Requests ==
    {[cmd |-> DI_RESET_ALL_COUNTERS, data |-> <<>>, rsize |-> 0, rexp |-> TRUE],
     [cmd |-> DI_GET_CHANNEL_STATE, data |-> <<3>>, rsize |-> 2, rexp |-> TRUE],
     [cmd |-> DI_GET_CHANNEL_STATE, data |-> <<256>>, rsize |-> 2, rexp |-> TRUE],
     [cmd |-> RESET, data |-> <<>>, rsize |-> 0, rexp |-> FALSE]}

\* the arguments of the call: the name property fixes them, a plain
\* transfer takes any request of the scenario. (They are the caller's own
\* until they are used, so they are drawn here, where they first are.)
RequestsOf(l) ==
    IF l.op = "transfer" THEN scenario.requests
    ELSE IF l.op \in {"op", "watchdog"}
    THEN {[cmd |-> l.cmd, data |-> l.data, rsize |-> l.rsize, rexp |-> TRUE]}
    ELSE {[cmd |-> GET_BOARD_NAME, data |-> <<>>, rsize |-> NameSize,
           rexp |-> TRUE]}

TriesOf(l) == IF l.op = "transfer" THEN scenario.tries ELSE {DefaultTries}

\* return self.__frame_id, then I2CFrame(id, cmd, data): a ValueError leaves
\* the operation before _transfer_ is called
RequestFrame(t) ==
    /\ pc[t] = "gen5"
    /\ \E rq \in RequestsOf(loc[t]) :
          LET h == loc[t].hat
              r == I2CFrame_init(hats[h].frame_id, rq.cmd, rq.data)
              l == [loc[t] EXCEPT !.cmd = rq.cmd, !.data = rq.data,
                                  !.rsize = rq.rsize, !.rexp = rq.rexp,
                                  !.nth = hats[h].issued + 1]
          IN  IF r.err = "none"
              THEN /\ SetLoc(t, [l EXCEPT !.req = r.frame,
                                          !.nout = hats[h].outbound + 1])
                   /\ Goto(t, "acquire")
                   /\ last' = NoCall
                   /\ hats' = [hats EXCEPT ![h].issued = @ + 1,
                                           ![h].outbound = @ + 1]
              ELSE /\ Finish(t, r.err, l)
                   /\ hats' = [hats EXCEPT ![h].issued = @ + 1]
    /\ UNCHANGED <<i2c_bus, periph, i2c_bus_lock, threads, scenario, ncalls>>
    /\ UNCHANGED <<cvars, feeder>>

AcquireNoWait(t) ==
    /\ pc[t] = "acquire"
    /\ i2c_bus_lock' = t
    /\ \E n \in TriesOf(loc[t]) :
          SetLoc(t, [loc[t] EXCEPT !.n = n, !.exceptions = <<>>,
                                  !.try_cnt = 0, !.raw = <<>>,
                                  !.out = "pending", !.resp = NoFrame,
                                  !.writes = 0, !.reads = 0, !.sleeps = 0,
                                  !.ids = <<>>, !.log = <<>>])
    /\ Goto(t, "write")
    /\ last' = NoCall
    /\ UNCHANGED <<i2c_bus, periph, hats, threads, scenario, ncalls>>
    /\ UNCHANGED <<cvars, feeder>>

\* with I2CHat.i2c_bus_lock: exceptions = [], try_cnt = 0
Acquire(t) ==
    /\ pc[t] = "acquire"
    /\ i2c_bus_lock = 0
    /\ i2c_bus_lock' = t
    /\ \E n \in TriesOf(loc[t]) :
          SetLoc(t, [loc[t] EXCEPT !.n = n, !.exceptions = <<>>,
                                  !.try_cnt = 0, !.raw = <<>>,
                                  !.out = "pending", !.resp = NoFrame,
                                  !.writes = 0, !.reads = 0, !.sleeps = 0,
                                  !.ids = <<>>, !.log = <<>>])
    /\ Goto(t, "write")
    /\ last' = NoCall
    /\ UNCHANGED <<i2c_bus, periph, hats, threads, scenario, ncalls>>
    /\ UNCHANGED <<cvars, feeder>>

OnExceptionOffByOne(l, ex) ==
    LET m == [l EXCEPT !.exceptions = Append(@, ex), !.try_cnt = @ + 1]
    IN  IF m.try_cnt <= m.n THEN m
        ELSE [m EXCEPT !.out = "ResponseException"]

OnExceptionDefault(l, ex) ==
    LET m == [l EXCEPT !.exceptions = Append(@, ex), !.try_cnt = @ + 1]
    IN  IF m.try_cnt < m.n THEN m
        ELSE [m EXCEPT !.out = "frame", !.resp = MkFrame(m.req.id, m.req.cmd, <<>>)]

MessageOfLast(exceptions) ==
    IF exceptions = <<>> THEN <<>>
    ELSE <<[try |-> 1, result |-> exceptions[Len(exceptions)]]>>

\* for i in range(0, len(exceptions)):
\*     message += "try: " + str(i + 1) + " result: " + str(exceptions[i]) + "\n"
Message(exceptions) ==
    [i \in 1..Len(exceptions) |-> [try |-> i, result |-> exceptions[i]]]

\* except Exception as ex: the exception is recorded and counted; the
\* transfer goes on (out stays "pending": sleep, then the next attempt) or
\* raises I2CHatResponseException(message)
OnException(l, ex) ==
    LET m == [l EXCEPT !.exceptions = Append(@, ex), !.try_cnt = @ + 1]
    IN  IF m.try_cnt < m.n THEN m
        ELSE [m EXCEPT !.out = "ResponseException",
                       !.message = Message(m.exceptions)]

AfterAttempt(l) == IF l.out = "pending" THEN "sleep" ELSE "exit"

ID_SIZE == 1
CMD_SIZE == 1
CRC_SIZE == 2

\* dummy_byte = 0xFF
dummy_byte == 255

ResponseSizeOfPayload(l) == l.rsize

\* expected_response_size = I2CFrame.ID_SIZE + I2CFrame.CMD_SIZE
\*                          + response_data_size + I2CFrame.CRC_SIZE
expected_response_size(l) == ID_SIZE + CMD_SIZE + l.rsize + CRC_SIZE

\* write_i2c_block_data(self.__address, request_data[0], request_data[1:])
BlockWrite(address, request_data, ok) ==
    [call |-> "write", address |-> address, cmd |-> Head(request_data),
     data |-> Tail(request_data), size |-> 0, ok |-> ok]

\* read_i2c_block_data(self.__address, dummy_byte, expected_response_size)
BlockRead(address, l, ok) ==
    [call |-> "read", address |-> address, cmd |-> dummy_byte,
     data |-> <<>>, size |-> expected_response_size(l), ok |-> ok]

ResponseAlwaysExpected(l) == TRUE

\* if not response_expected: return
ResponseExpected(l) == l.rexp

\* request_frame.encode() and write_i2c_block_data: on None it raises
\* AttributeError, on a bus it succeeds or raises an I/O error
Write(t) ==
    /\ pc[t] = "write"
    /\ \E frame \in {encode(loc[t].req)} :
       \E ok \in (IF "write" \in scenario.faults THEN BOOLEAN ELSE {TRUE}) :
       \E l \in {IF ~i2c_bus
                 THEN [loc[t] EXCEPT !.writes = @ + 1, !.raw = <<>>,
                                     !.ids = Append(@, frame[1])]
                 ELSE [loc[t] EXCEPT !.writes = @ + 1, !.raw = <<>>,
                                     !.ids = Append(@, frame[1]),
                                     !.log = Append(@,
                                        BlockWrite(hats[loc[t].hat].address,
                                                   frame, ok))]} :
       \E m \in {IF ~i2c_bus THEN OnException(l, "AttributeError")
                 ELSE IF ~ok THEN OnException(l, "write I/O error")
                 ELSE IF ~ResponseExpected(l)
                 THEN [l EXCEPT !.out = "none"]
                 ELSE l} :
          /\ SetLoc(t, m)
          /\ Goto(t, IF i2c_bus /\ ok /\ ResponseExpected(l)
                     THEN "read"
                     ELSE AfterAttempt(m))
          /\ periph' = IF i2c_bus /\ ok /\ scenario.bus = "sim"
                       THEN SimWrite(periph, l.req)
                       ELSE periph
    /\ last' = NoCall
    /\ UNCHANGED <<i2c_bus, i2c_bus_lock, hats, threads, scenario, ncalls>>
    /\ UNCHANGED <<cvars, feeder>>

\* the classes whose _transfer_ keeps the time of the last valid transfer:
\* I2CHat of i2c_hats/_base.py and the board classes built on it
KeepsTransferTime(cls) == cls \notin {"none", "_i2c_hat", "i2c_hat_modules"}

\* time.time(): the clock of the model is the number of calls started
Now == ncalls + 1

TransferTimeOfAttempt(hat, decoded, now) ==
    IF KeepsTransferTime(hat.cls) THEN now ELSE hat.transfer_time

\* response_frame.decode(response_data); self.__transfer_time = time.time():
\* the assignment is reached when decode did not raise
TransferTime(hat, decoded, now) ==
    IF KeepsTransferTime(hat.cls) /\ decoded THEN now ELSE hat.transfer_time

\* read_i2c_block_data, I2CFrame(request.id, request.cmd), decode
Read(t) ==
    /\ pc[t] = "read"
    /\ LET a == hats[loc[t].hat].address
           f == [loc[t] EXCEPT !.reads = @ + 1,
                               !.log = Append(@, BlockRead(a, loc[t], FALSE))]
           l == [loc[t] EXCEPT !.reads = @ + 1,
                               !.log = Append(@, BlockRead(a, loc[t], TRUE))]
           h == loc[t].hat
       IN  \/ /\ "read" \in scenario.faults
              /\ SetLoc(t, OnException(f, "read I/O error"))
              /\ Goto(t, AfterAttempt(OnException(f, "read I/O error")))
              /\ hats' = [hats EXCEPT ![h].transfer_time =
                                         TransferTime(hats[h], FALSE, Now)]
           \/ \E r \in BusReads(l) :
                 LET d == decode(MkFrame(l.req.id, l.req.cmd, <<>>), r)
                     m == IF d.err = "none"
                          THEN [l EXCEPT !.raw = r, !.out = "frame",
                                         !.resp = d.frame]
                          ELSE OnException([l EXCEPT !.raw = r], d.err)
                 IN  /\ SetLoc(t, m)
                     /\ Goto(t, AfterAttempt(m))
                     /\ hats' = [hats EXCEPT ![h].transfer_time =
                                    TransferTime(hats[h], d.err = "none", Now)]
    /\ last' = NoCall
    /\ UNCHANGED <<i2c_bus, periph, i2c_bus_lock, threads, scenario, ncalls>>
    /\ UNCHANGED <<cvars, feeder>>

\* time.sleep(0.01), then the next pass of while True
Sleep(t) ==
    /\ pc[t] = "sleep"
    /\ SetLoc(t, [loc[t] EXCEPT !.sleeps = @ + 1])
    /\ Goto(t, "write")
    /\ last' = NoCall
    /\ UNCHANGED <<i2c_bus, periph, i2c_bus_lock, hats, threads, scenario,
                   ncalls>>
    /\ UNCHANGED <<cvars, feeder>>

ReturnHoldingOnError(t) ==
    /\ pc[t] = "exit"
    /\ loc[t].op = "transfer"
    /\ i2c_bus_lock' = IF loc[t].out = "ResponseException" THEN t ELSE 0
    /\ Finish(t, loc[t].out, loc[t])
    /\ UNCHANGED <<i2c_bus, periph, hats, threads, scenario, ncalls>>
    /\ UNCHANGED <<cvars, feeder>>

\* _transfer_ returns or raises: the with block releases the lock and the
\* caller gets the frame, None or I2CHatResponseException
Return(t) ==
    /\ pc[t] = "exit"
    /\ loc[t].op = "transfer"
    /\ i2c_bus_lock' = 0
    /\ Finish(t, loc[t].out, loc[t])
    /\ UNCHANGED <<i2c_bus, periph, hats, threads, scenario, ncalls>>
    /\ UNCHANGED <<cvars, feeder>>

\* a caller starts request = _request_frame_(cmd, data);
\* _transfer_(request, rsize, rexp, n) on a handle
Call(t) ==
    /\ t \in threads
    /\ pc[t] = "idle"
    /\ ncalls < MaxCalls
    /\ \E h \in Hats :
          /\ hats[h].built
          /\ SetLoc(t, [IdleLoc EXCEPT !.op = "transfer", !.hat = h])
    /\ Goto(t, "gen1")
    /\ ncalls' = ncalls + 1
    /\ last' = NoCall
    /\ UNCHANGED <<i2c_bus, periph, i2c_bus_lock, hats, threads, scenario>>
    /\ UNCHANGED <<cvars, feeder>>

TransferStep(t) ==
    \/ GenLoad1(t)
    \/ GenStore1(t)
    \/ GenLoad2(t)
    \/ GenStore2(t)
    \/ RequestFrame(t)
    \/ Acquire(t)
    \/ Write(t)
    \/ Read(t)
    \/ Sleep(t)

CodecIdle ==
    /\ cargs = NoFrame
    /\ cframe = NoFrame
    /\ cerr = "none"
    /\ craw = <<>>
    /\ cmut = 0
    /\ cstep = "off"

\* one handle exists (built without a board name: no traffic), with or
\* without a bus; one caller makes any request of the scenario with any
\* number_of_tries up to MaxTries
Init ==
    /\ i2c_bus \in BOOLEAN
    /\ i2c_bus_lock = 0
    /\ periph = PeriphOff
    /\ hats = [h \in Hats |->
                  IF h = 1
                  THEN [built |-> TRUE, address |-> 63 + h,
                        frame_id |-> FirstFrameId, issued |-> 0,
                        outbound |-> 0, cls |-> "_i2c_hat",
                        transfer_time |-> NoTime]
                  ELSE NoHat]
    /\ threads = {1}
    /\ scenario = [requests |-> Requests, tries |-> 0..MaxTries,
                   faults |-> AllFaults,
                   programs |-> {}, calls |-> 0, bus |-> "any"]
    /\ pc = [t \in Callers |-> "idle"]
    /\ loc = [t \in Callers |-> IdleLoc]
    /\ ncalls = 0
    /\ last = NoCall
    /\ CodecIdle
    /\ FeederIdle

Next ==
    \E t \in Callers :
        \/ Call(t)
        \/ TransferStep(t)
        \/ Return(t)

Spec == Init /\ [][Next]_vars

\* the requests and number_of_tries of the callers of SpecThreads
ThreadRequests == {rq \in Requests : rq.rsize = 0}
ThreadTries == {1, 2}

\* two handles and all the callers, each making short requests with one
\* or two tries; the bus fails writes and damages checksums
InitThreads ==
    /\ i2c_bus \in BOOLEAN
    /\ i2c_bus_lock = 0
    /\ periph = PeriphOff
    /\ hats = [h \in Hats |-> [built |-> TRUE, address |-> 63 + h,
                               frame_id |-> FirstFrameId, issued |-> 0,
                               outbound |-> 0, cls |-> "_i2c_hat",
                               transfer_time |-> NoTime]]
    /\ threads = Callers
    /\ scenario = [requests |-> ThreadRequests, tries |-> ThreadTries,
                   faults |-> {"write", "crc"},
                   programs |-> {}, calls |-> 0, bus |-> "any"]
    /\ pc = [t \in Callers |-> "idle"]
    /\ loc = [t \in Callers |-> IdleLoc]
    /\ ncalls = 0
    /\ last = NoCall
    /\ CodecIdle
    /\ FeederIdle

SpecThreads == InitThreads /\ [][Next]_vars

\* a caller inside a call is scheduled again and again; nothing is assumed
\* about who gets a lock that several callers wait for
CallStep(t) == TransferStep(t) \/ Return(t)

\* two handles and two callers waiting for each other's transfers, each
\* with two tries; the bus fails writes
InitLock ==
    /\ i2c_bus = TRUE
    /\ i2c_bus_lock = 0
    /\ periph = PeriphOff
    /\ hats = [h \in Hats |-> [built |-> TRUE, address |-> 63 + h,
                               frame_id |-> FirstFrameId, issued |-> 0,
                               outbound |-> 0, cls |-> "_i2c_hat",
                               transfer_time |-> NoTime]]
    /\ threads = Callers
    /\ scenario = [requests |-> ThreadRequests, tries |-> {2},
                   faults |-> {"write"},
                   programs |-> {}, calls |-> 0, bus |-> "any"]
    /\ pc = [t \in Callers |-> "idle"]
    /\ loc = [t \in Callers |-> IdleLoc]
    /\ ncalls = 0
    /\ last = NoCall
    /\ CodecIdle
    /\ FeederIdle

SpecLock == InitLock /\ [][Next]_vars /\ \A t \in Callers : WF_vars(CallStep(t))

\* two handles of i2c_hats/_base.py and one caller; the bus fails writes
\* and damages checksums
InitTimes ==
    /\ i2c_bus = TRUE
    /\ i2c_bus_lock = 0
    /\ periph = PeriphOff
    /\ hats = [h \in Hats |-> [built |-> TRUE, address |-> 63 + h,
                               frame_id |-> FirstFrameId, issued |-> 0,
                               outbound |-> 0, cls |-> "i2c_hats",
                               transfer_time |-> NoTime]]
    /\ threads = {1}
    /\ scenario = [requests |-> ThreadRequests, tries |-> ThreadTries,
                   faults |-> {"write", "crc"},
                   programs |-> {}, calls |-> 0, bus |-> "any"]
    /\ pc = [t \in Callers |-> "idle"]
    /\ loc = [t \in Callers |-> IdleLoc]
    /\ ncalls = 0
    /\ last = NoCall
    /\ CodecIdle
    /\ FeederIdle

SpecTimes == InitTimes /\ [][Next]_vars

\* number_of_tries as callers may pass it: any integer
AnyTries == {-1, 0, 1, 2, 3}

\* one handle, with or without a bus, and one caller, scheduled again and
\* again while inside a call; the bus fails writes and damages checksums
InitTries ==
    /\ i2c_bus \in BOOLEAN
    /\ i2c_bus_lock = 0
    /\ periph = PeriphOff
    /\ hats = [h \in Hats |->
                  IF h = 1
                  THEN [built |-> TRUE, address |-> 63 + h,
                        frame_id |-> FirstFrameId, issued |-> 0,
                        outbound |-> 0, cls |-> "_i2c_hat",
                        transfer_time |-> NoTime]
                  ELSE NoHat]
    /\ threads = {1}
    /\ scenario = [requests |-> ThreadRequests, tries |-> AnyTries,
                   faults |-> {"write", "crc"},
                   programs |-> {}, calls |-> 0, bus |-> "any"]
    /\ pc = [t \in Callers |-> "idle"]
    /\ loc = [t \in Callers |-> IdleLoc]
    /\ ncalls = 0
    /\ last = NoCall
    /\ CodecIdle
    /\ FeederIdle

SpecTries == InitTries /\ [][Next]_vars /\ WF_vars(CallStep(1))

\* calls of _request_frame_ a handle has behind it when the run starts
StartCounts == {0, 224}

\* a handle after k requests, all of them sent
HatAfter(h, k) ==
    [built |-> TRUE, address |-> 63 + h,
     frame_id |-> (FirstFrameId + k) % 256, issued |-> k, outbound |-> k,
     cls |-> "_i2c_hat", transfer_time |-> NoTime]

\* one caller, on handles that are new or have 224 requests behind them
\* (the next ids are 0xFF, 0x00, 0x01); the bus fails writes and damages
\* checksums
InitIds ==
    /\ i2c_bus = TRUE
    /\ i2c_bus_lock = 0
    /\ periph = PeriphOff
    /\ \E k \in StartCounts : hats = [h \in Hats |-> HatAfter(h, k)]
    /\ threads = {1}
    /\ scenario = [requests |-> Requests, tries |-> {1, 2},
                   faults |-> {"write", "crc"},
                   programs |-> {}, calls |-> 0, bus |-> "any"]
    /\ pc = [t \in Callers |-> "idle"]
    /\ loc = [t \in Callers |-> IdleLoc]
    /\ ncalls = 0
    /\ last = NoCall
    /\ CodecIdle
    /\ FeederIdle

SpecIds == InitIds /\ [][Next]_vars

-----------------------------------------------------------------------------
(* I2CHat.__init__ (SpecCtor) *)

\* the check of __init__ on address: TRUE when no ValueError is raised
AddressAccepted(address, base) ==
    IF base = NoBase THEN 0 <= address /\ address <= 127
    ELSE BitAnd(address, base) = base

\* the name property: the characters before the first zero byte
BoardName(d) ==
    LET z == {k \in 1..Len(d) : d[k] = 0}
    IN  IF z = {} THEN d
        ELSE SubSeq(d, 1, (CHOOSE k \in z : \A j \in z : k <= j) - 1)

\* the classes and arguments of the constructions of the scenario: every
\* sampled address with and without a family base and no board name, and a
\* few of them with the board name "Di16"
AddrSamples == {-1, 0, 63, 64, 65, 79, 80, 81, 127, 128}
NamedAddrSamples == {63, 65, 81, 128}
Classes == {"_i2c_hat", "i2c_hat_modules"}

CtorInputs ==
    {[cls |-> c, address |-> a, base |-> b, bname |-> NoName] :
        c \in Classes, a \in AddrSamples, b \in {NoBase, 64}}
    \cup {[cls |-> c, address |-> a, base |-> b, bname |-> Di16Name] :
        c \in Classes, a \in NamedAddrSamples, b \in {NoBase, 64}}

\* I2CHat(address, base_address, board_name) up to the board name check:
\* ValueError for a refused address; else the fields are set and, with a
\* board name, the name property is read
Construct(t) ==
    /\ t \in threads
    /\ pc[t] = "idle"
    /\ \A h \in Hats : hats[h] = NoHat
    /\ \E h \in Hats, in \in CtorInputs :
          LET l == [IdleLoc EXCEPT !.op = "ctor", !.hat = h, !.cls = in.cls,
                                   !.address = in.address, !.base = in.base,
                                   !.bname = in.bname]
              obj == [built |-> FALSE, address |-> in.address,
                      frame_id |-> FirstFrameId, issued |-> 0,
                      outbound |-> 0, cls |-> in.cls,
                      transfer_time |-> NoTime]
          IN  IF ~AddressAccepted(in.address, in.base)
              THEN /\ Finish(t, "ValueError", l)
                   /\ UNCHANGED hats
              ELSE IF in.bname = NoName
              THEN /\ Finish(t, "ok", l)
                   /\ hats' = [hats EXCEPT ![h] = [obj EXCEPT !.built = TRUE]]
              ELSE /\ SetLoc(t, l)
                   /\ Goto(t, "gen1")
                   /\ last' = NoCall
                   /\ hats' = [hats EXCEPT ![h] = obj]
    /\ UNCHANGED <<i2c_bus, periph, i2c_bus_lock, threads, scenario, ncalls>>
    /\ UNCHANGED <<cvars, feeder>>

\* the name property returns or raises inside __init__:
\*   if self.name not in board_name: raise Exception(... + self.name + ...)
\* (_i2c_hat.py reads self.name again for the message; i2c_hat_modules.py
\* keeps the name in actual_board_name)
NameReturn(t) ==
    /\ pc[t] = "exit"
    /\ loc[t].op = "ctor"
    /\ i2c_bus_lock' = 0
    /\ LET l == loc[t]
           h == l.hat
           name == BoardName(l.resp.data)
           m == [l EXCEPT !.names = @ + 1,
                          !.got = IF l.names = 0 THEN name ELSE @]
       IN  IF l.out = "ResponseException"
           THEN /\ Finish(t, "ResponseException", l)
                /\ hats' = [hats EXCEPT ![h] = NoHat]
           ELSE IF l.names = 0 /\ IsInfix(name, l.bname)
           THEN /\ Finish(t, "ok", m)
                /\ hats' = [hats EXCEPT ![h].built = TRUE]
           ELSE IF l.names = 0 /\ l.cls # "i2c_hat_modules"
           THEN /\ SetLoc(t, m)
                /\ Goto(t, "gen1")
                /\ last' = NoCall
                /\ UNCHANGED hats
           ELSE /\ Finish(t, "Exception", m)
                /\ hats' = [hats EXCEPT ![h] = NoHat]
    /\ UNCHANGED <<i2c_bus, periph, threads, scenario, ncalls>>
    /\ UNCHANGED <<cvars, feeder>>

\* a process with a bus and no handle yet; one caller builds handles; the
\* bus fails writes and hands back stale answers
InitCtor ==
    /\ i2c_bus = TRUE
    /\ i2c_bus_lock = 0
    /\ periph = PeriphOff
    /\ hats = [h \in Hats |-> NoHat]
    /\ threads = {1}
    /\ scenario = [requests |-> {}, tries |-> {}, faults |-> {"write", "id"},
                   programs |-> {}, calls |-> 0, bus |-> "any"]
    /\ pc = [t \in Callers |-> "idle"]
    /\ loc = [t \in Callers |-> IdleLoc]
    /\ ncalls = 0
    /\ last = NoCall
    /\ CodecIdle
    /\ FeederIdle

NextCtor ==
    \E t \in Callers :
        \/ Construct(t)
        \/ TransferStep(t)
        \/ NameReturn(t)

SpecCtor == InitCtor /\ [][NextCtor]_vars

-----------------------------------------------------------------------------
(* The board classes of raspihats.i2c_hats *)

Boards ==
    {"Di16", "Rly10", "Di6Rly6", "DI16ac", "DQ16oc", "DQ10rly", "DQ8rly",
     "DI6acDQ6rly", "DI6acDQ6ssr", "DI6dwDQ6ssr"}

\* _BASE_ADDRESS of each board class
BASE_ADDRESS(b) ==
      CASE b = "Di16" -> 64
        [] b = "Rly10" -> 80
        [] b = "Di6Rly6" -> 96
        [] b = "DI16ac" -> 64
        [] b = "DQ16oc" -> 80
        [] b = "DQ10rly" -> 80
        [] b = "DQ8rly" -> 80
        [] b = "DI6acDQ6rly" -> 96
        [] b = "DI6acDQ6ssr" -> 112
        [] b = "DI6dwDQ6ssr" -> 128

\* _BOARD_NAME of each board class, as character codes
BOARD_NAME(b) ==
      CASE b = "Di16" -> <<68, 105, 49, 54, 32, 73, 50, 67, 45, 72, 65, 84>>
        [] b = "Rly10" -> <<82, 108, 121, 49, 48, 32, 73, 50, 67, 45, 72, 65, 84>>
        [] b = "Di6Rly6" -> <<68, 105, 54, 82, 108, 121, 54, 32, 73, 50, 67, 45, 72, 65, 84>>
        [] b = "DI16ac" -> <<68, 73, 49, 54, 97, 99, 32, 73, 50, 67, 45, 72, 65, 84>>
        [] b = "DQ16oc" -> <<68, 81, 49, 54, 111, 99, 32, 73, 50, 67, 45, 72, 65, 84>>
        [] b = "DQ10rly" -> <<68, 81, 49, 48, 114, 108, 121, 32, 73, 50, 67, 45, 72, 65, 84>>
        [] b = "DQ8rly" -> <<68, 81, 56, 114, 108, 121, 32, 73, 50, 67, 45, 72, 65, 84>>
        [] b = "DI6acDQ6rly" -> <<68, 73, 54, 97, 99, 68, 81, 54, 114, 108, 121, 32, 73, 50, 67, 45, 72, 65, 84>>
        [] b = "DI6acDQ6ssr" -> <<68, 73, 54, 97, 99, 68, 81, 54, 115, 115, 114, 32, 73, 50, 67, 45, 72, 65, 84>>
        [] b = "DI6dwDQ6ssr" -> <<68, 73, 54, 100, 119, 68, 81, 54, 115, 115, 114, 32, 73, 50, 67, 45, 72, 65, 84>>

\* the range each class documents for its address argument:
\* "I2C bus address, valid range is [0x60, 0x6F]"
ValidRange(b) ==
      CASE b = "Di16" -> 64..79
        [] b = "Rly10" -> 80..95
        [] b = "Di6Rly6" -> 96..111
        [] b = "DI16ac" -> 64..79
        [] b = "DQ16oc" -> 80..95
        [] b = "DQ10rly" -> 80..95
        [] b = "DQ8rly" -> 80..95
        [] b = "DI6acDQ6rly" -> 96..111
        [] b = "DI6acDQ6ssr" -> 96..111
        [] b = "DI6dwDQ6ssr" -> 96..111

\* addresses callers pass: ends of the documented ranges, an address below
\* them, and the bases above them
BoardAddresses == {63, 64, 79, 96, 111, 112, 128}

\* Board(address): I2CHat.__init__(self, address, self._BASE_ADDRESS,
\* self._BOARD_NAME) of _base.py: ValueError for a refused address; else
\* the fields are set and the name property is read
BoardConstruct(t) ==
    /\ t \in threads
    /\ pc[t] = "idle"
    /\ \A h \in Hats : hats[h] = NoHat
    /\ \E h \in Hats, b \in Boards, a \in BoardAddresses :
          LET l == [IdleLoc EXCEPT !.op = "ctor", !.hat = h, !.cls = b,
                                   !.address = a, !.base = BASE_ADDRESS(b),
                                   !.bname = BOARD_NAME(b)]
              obj == [built |-> FALSE, address |-> a,
                      frame_id |-> FirstFrameId, issued |-> 0,
                      outbound |-> 0, cls |-> b,
                      transfer_time |-> NoTime]
          IN  IF ~AddressAccepted(a, BASE_ADDRESS(b))
              THEN /\ Finish(t, "ValueError", l)
                   /\ UNCHANGED hats
              ELSE /\ SetLoc(t, l)
                   /\ Goto(t, "gen1")
                   /\ last' = NoCall
                   /\ hats' = [hats EXCEPT ![h] = obj]
    /\ UNCHANGED <<i2c_bus, periph, i2c_bus_lock, threads, scenario, ncalls>>
    /\ UNCHANGED <<cvars, feeder>>

\* a process with a bus and no handle yet; one caller builds boards; the
\* bus fails writes and answers with the board's name or another
InitBoards ==
    /\ i2c_bus = TRUE
    /\ i2c_bus_lock = 0
    /\ periph = PeriphOff
    /\ hats = [h \in Hats |-> NoHat]
    /\ threads = {1}
    /\ scenario = [requests |-> {}, tries |-> {}, faults |-> {"write"},
                   programs |-> {}, calls |-> 0, bus |-> "any"]
    /\ pc = [t \in Callers |-> "idle"]
    /\ loc = [t \in Callers |-> IdleLoc]
    /\ ncalls = 0
    /\ last = NoCall
    /\ CodecIdle
    /\ FeederIdle

NextBoards ==
    \E t \in Callers :
        \/ BoardConstruct(t)
        \/ TransferStep(t)
        \/ NameReturn(t)

SpecBoards == InitBoards /\ [][NextBoards]_vars

-----------------------------------------------------------------------------
(* Callers of the operations (SpecOps, SpecSim) *)

\* int(value) of a bool
IntOf(b) == IF b THEN 1 ELSE 0

\* channel references callers use: -1, 0, 2, 3, "di1", "Di3", "Di4", ""
Refs ==
    {IntRef(-1), IntRef(0), IntRef(2), IntRef(3), StrRef(<<100, 105, 49>>),
     StrRef(<<68, 105, 51>>), StrRef(<<68, 105, 52>>), StrRef(<<>>)}

ModuleClasses == {"_digital", "i2c_hat_modules"}

\* values given to _set_u32_value_: 0, 1, 4000, 0x01020304, 2^32 - 1, 2^32, -1
U32Samples ==
    {Wide(0, 0), Wide(0, 1), Wide(0, 4000), Wide(258, 772),
     Wide(65535, 65535), Wide(65536, 0), Wide(-1, 65535)}

\* values assigned to a counter
ResetValues == {0, 1, -1}

\* the calls of the scenario, one operation each
OpPrograms ==
    {<<OpIn("get_u32", "_i2c_hat", CWDT_GET_PERIOD, IntRef(0), 0, 0)>>}
    \cup {<<SetU32In(CWDT_SET_PERIOD, v)>> : v \in U32Samples}
    \cup {<<OpIn("get_state", c, DI_GET_CHANNEL_STATE, r, 0, 0)>> :
            c \in ModuleClasses, r \in Refs}
    \cup {<<OpIn("set_state", c, DO_SET_CHANNEL_STATE, r, 0, IntOf(v))>> :
            c \in ModuleClasses, r \in Refs, v \in BOOLEAN}
    \cup {<<OpIn("get_counter", c, DI_GET_COUNTER, r, e, 0)>> :
            c \in ModuleClasses, r \in Refs, e \in {0, 1}}
    \cup {<<OpIn("reset_counter", "_digital", DI_RESET_COUNTER, r, e, v)>> :
            r \in Refs, e \in {0, 1}, v \in ResetValues}
    \cup {<<OpIn("reset_counter", "i2c_hat_modules", DI_RESET_COUNTER, r, e,
                 0)>> : r \in Refs, e \in {0, 1}}

\* the calls against the simulator: set a channel, then get a channel
SimRefs == {IntRef(0), IntRef(2), StrRef(<<68, 105, 51>>)}

SimPrograms ==
    {<<OpIn("set_state", c, DO_SET_CHANNEL_STATE, r, 0, IntOf(v)),
       OpIn("get_state", c, DO_GET_CHANNEL_STATE, q, 0, 0)>> :
        c \in ModuleClasses, r \in SimRefs, q \in SimRefs, v \in BOOLEAN}

\* caller t, with the locals l of its program so far, starts the first
\* operation of prog: it raises before _request_frame_ or goes on to it
StartOp(t, l, prog) ==
    LET in == Head(prog)
        p == Prepare(in)
        m == [l EXCEPT !.cur = in, !.prog = Tail(prog), !.index = p.index,
                       !.cmd = p.cmd, !.data = p.data, !.rsize = p.rsize]
        c == [err |-> p.err, ret |-> Wide(0, 0), retb |-> FALSE]
    IN  IF p.err # "none"
        THEN Finish(t, p.err,
                    [m EXCEPT !.hist = Append(@, Outcome(in, p.index, <<>>, c, m))])
        ELSE /\ SetLoc(t, m)
             /\ Goto(t, "gen1")
             /\ last' = NoCall

\* a caller calls an operation of a module on a handle
OpCall(t) ==
    /\ t \in threads
    /\ pc[t] = "idle"
    /\ ncalls < scenario.calls
    /\ \E h \in Hats, prog \in scenario.programs :
          /\ hats[h].built
          /\ StartOp(t, [IdleLoc EXCEPT !.op = "op", !.hat = h,
                                        !.before = periph.do], prog)
    /\ ncalls' = ncalls + 1
    /\ UNCHANGED <<i2c_bus, periph, i2c_bus_lock, hats, threads, scenario>>
    /\ UNCHANGED <<cvars, feeder>>

\* _transfer_ returns to the operation or raises through it: the operation
\* checks the response and returns or raises; the caller goes on with the
\* next operation of its program
OpReturn(t) ==
    /\ pc[t] = "exit"
    /\ loc[t].op = "op"
    /\ i2c_bus_lock' = 0
    /\ LET l == loc[t]
           c == IF l.out = "ResponseException"
                THEN [err |-> "ResponseException", ret |-> Wide(0, 0),
                      retb |-> FALSE]
                ELSE Conclude(l.cur, l.index, l.data, l.resp.data)
           m == [l EXCEPT !.hist = Append(@, Outcome(l.cur, l.index, l.data,
                                                     c, l))]
       IN  IF c.err # "none" THEN Finish(t, c.err, m)
           ELSE IF l.prog = <<>> THEN Finish(t, "ok", m)
           ELSE StartOp(t, [IdleLoc EXCEPT !.op = "op", !.hat = l.hat,
                                           !.before = l.before,
                                           !.hist = m.hist], l.prog)
    /\ UNCHANGED <<i2c_bus, periph, hats, threads, scenario, ncalls>>
    /\ UNCHANGED <<cvars, feeder>>

\* one caller calls one operation on a handle built without a board name; the bus fails writes and answers with any sampled payload
InitOps ==
    /\ i2c_bus = TRUE
    /\ i2c_bus_lock = 0
    /\ periph = PeriphOff
    /\ hats = [h \in Hats |-> HatAfter(h, 0)]
    /\ threads = {1}
    /\ scenario = [requests |-> {}, tries |-> {}, faults |-> {"write"},
                   programs |-> OpPrograms, calls |-> 1,
                   bus |-> "any"]
    /\ pc = [t \in Callers |-> "idle"]
    /\ loc = [t \in Callers |-> IdleLoc]
    /\ ncalls = 0
    /\ last = NoCall
    /\ CodecIdle
    /\ FeederIdle

NextOps ==
    \E t \in Callers :
        \/ OpCall(t)
        \/ TransferStep(t)
        \/ OpReturn(t)

SpecOps == InitOps /\ [][NextOps]_vars

\* calls with a good and with a bad channel reference or reset value
RejectPrograms ==
    {<<OpIn("get_state", c, DI_GET_CHANNEL_STATE, r, 0, 0)>> :
        c \in ModuleClasses,
        r \in {IntRef(0), IntRef(-1), IntRef(3), StrRef(<<68, 105, 52>>)}}
    \cup {<<OpIn("reset_counter", "_digital", DI_RESET_COUNTER, IntRef(2), 1,
                 v)>> : v \in ResetValues}

\* one caller calls two operations, one after the other, catching what the
\* first one raises; the bus fails writes
InitRejects ==
    /\ i2c_bus = TRUE
    /\ i2c_bus_lock = 0
    /\ periph = PeriphOff
    /\ hats = [h \in Hats |-> HatAfter(h, 0)]
    /\ threads = {1}
    /\ scenario = [requests |-> {}, tries |-> {}, faults |-> {"write"},
                   programs |-> RejectPrograms, calls |-> 2,
                   bus |-> "any"]
    /\ pc = [t \in Callers |-> "idle"]
    /\ loc = [t \in Callers |-> IdleLoc]
    /\ ncalls = 0
    /\ last = NoCall
    /\ CodecIdle
    /\ FeederIdle

SpecRejects == InitRejects /\ [][NextOps]_vars

\* the same against the simulator, its outputs in any state; the bus fails
\* reads
InitSim ==
    /\ i2c_bus = TRUE
    /\ i2c_bus_lock = 0
    /\ periph \in [do : [Channels -> BOOLEAN], u32 : {<<0, 0, 0, 0>>},
                   ans : {<<>>}]
    /\ hats = [h \in Hats |-> HatAfter(h, 0)]
    /\ threads = {1}
    /\ scenario = [requests |-> {}, tries |-> {},
                   faults |-> {"read"},
                   programs |-> SimPrograms, calls |-> 1, bus |-> "sim"]
    /\ pc = [t \in Callers |-> "idle"]
    /\ loc = [t \in Callers |-> IdleLoc]
    /\ ncalls = 0
    /\ last = NoCall
    /\ CodecIdle
    /\ FeederIdle

SpecSim == InitSim /\ [][NextOps]_vars

\* _set_u32_value_ of a sampled value, then _get_u32_value_
U32Programs ==
    {<<SetU32In(CWDT_SET_PERIOD, v),
       OpIn("get_u32", "_i2c_hat", CWDT_GET_PERIOD, IntRef(0), 0, 0)>> :
        v \in U32Samples}

\* the simulator holds some u32; one caller sets and gets it; the bus
\* fails writes and reads
InitSimU32 ==
    /\ i2c_bus = TRUE
    /\ i2c_bus_lock = 0
    /\ periph \in [do : {PeriphOff.do},
                   u32 : {<<0, 0, 0, 0>>, <<1, 2, 3, 4>>}, ans : {<<>>}]
    /\ hats = [h \in Hats |-> HatAfter(h, 0)]
    /\ threads = {1}
    /\ scenario = [requests |-> {}, tries |-> {},
                   faults |-> {"write", "read"},
                   programs |-> U32Programs, calls |-> 1, bus |-> "sim"]
    /\ pc = [t \in Callers |-> "idle"]
    /\ loc = [t \in Callers |-> IdleLoc]
    /\ ncalls = 0
    /\ last = NoCall
    /\ CodecIdle
    /\ FeederIdle

SpecSimU32 == InitSimU32 /\ [][NextOps]_vars

TransportIdle ==
    /\ i2c_bus = TRUE
    /\ i2c_bus_lock = 0
    /\ periph = PeriphOff
    /\ hats = [h \in Hats |-> NoHat]
    /\ threads = {}
    /\ scenario = [requests |-> {}, tries |-> {}, faults |-> {},
                   programs |-> {}, calls |-> 0, bus |-> "any"]
    /\ pc = [t \in Callers |-> "idle"]
    /\ loc = [t \in Callers |-> IdleLoc]
    /\ ncalls = 0
    /\ last = NoCall

-----------------------------------------------------------------------------
(* SpecCodec: the codec driven over sampled arguments *)

\* sampled field values: bytes at both ends of the range and just outside it
IdSamples == {30, 255, 256, -1}
CmdSamples == {33, 256}
DataSamples == {3, 255, 256}

\* every field of the arguments is a byte
ArgsAreBytes(a) == check_uint8(<<a.id, a.cmd>> \o a.data)

InitCodec ==
    /\ cargs \in {MkFrame(i, c, d) : i \in IdSamples, c \in CmdSamples,
                                     d \in SeqsUpTo(DataSamples, MaxPayload)}
    /\ cframe = NoFrame
    /\ cerr = "none"
    /\ craw = <<>>
    /\ cmut = 0
    /\ cstep = "args"
    /\ TransportIdle
    /\ FeederIdle

\* I2CFrame(id, cmd, data)
BuildI2CFrame ==
    /\ cstep = "args"
    /\ LET r == I2CFrame_init(cargs.id, cargs.cmd, cargs.data)
       IN  /\ cframe' = r.frame
           /\ cerr' = r.err
    /\ cstep' = "built"
    /\ UNCHANGED <<cargs, craw, cmut>>
    /\ UNCHANGED <<tvars, feeder>>

\* Frame(id, cmd, data), the class of i2c_hats/_frame.py
BuildFrame ==
    /\ cstep = "args"
    /\ LET r == Frame_init(cargs.id, cargs.cmd, cargs.data)
       IN  /\ cframe' = r.frame
           /\ cerr' = r.err
    /\ cstep' = "built"
    /\ UNCHANGED <<cargs, craw, cmut>>
    /\ UNCHANGED <<tvars, feeder>>

\* raw = frame.encode(); crc16 is defined on bytes only, so the encoding of
\* a frame that holds a non-byte is left out
EncodeFrame ==
    /\ cstep = "built"
    /\ cerr = "none"
    /\ ArgsAreBytes(cframe)
    /\ craw' = encode(cframe)
    /\ cstep' = "encoded"
    /\ UNCHANGED <<cargs, cframe, cerr, cmut>>
    /\ UNCHANGED <<tvars, feeder>>

\* the bus changes one byte of the encoding to another byte value
CorruptByte ==
    /\ cstep = "encoded"
    /\ cmut = 0
    /\ \E p \in 1..Len(craw), v \in 0..255 :
          /\ v # craw[p]
          /\ craw' = [craw EXCEPT ![p] = v]
          /\ cmut' = p
    /\ UNCHANGED <<cargs, cframe, cerr, cstep>>
    /\ UNCHANGED <<tvars, feeder>>

\* I2CFrame(id, cmd).decode(raw)
DecodeRaw ==
    /\ cstep = "encoded"
    /\ LET r == decode(MkFrame(cargs.id, cargs.cmd, <<>>), craw)
       IN  /\ cframe' = r.frame
           /\ cerr' = r.err
    /\ cstep' = "decoded"
    /\ UNCHANGED <<cargs, craw, cmut>>
    /\ UNCHANGED <<tvars, feeder>>

NextCodec ==
    \/ BuildI2CFrame
    \/ BuildFrame
    \/ EncodeFrame
    \/ CorruptByte
    \/ DecodeRaw

SpecCodec == InitCodec /\ [][NextCodec]_vars

-----------------------------------------------------------------------------
(* SpecFeeder: CwdtFeedThread.run / I2CHat.run and the owner of the thread *)

\* the commands stop() and update() put on cmd_queue
Commands == {"stop", "update"}

\* self.get_cwdt_period(): no class defines the method (I2CHat has
\* cwdt_get_period, Cwdt has period), so the call raises AttributeError
\* before any request is built
get_cwdt_period == "AttributeError"

\* time.time() - feed_time > feed_period: feed_time is 0.0 at first and a
\* poll of cmd_queue lies between a feed and the next test, so with
\* feed_period 0 the test is true
Due(f) == f.feed_period = 0

OnFeedExceptionKeepRunning(f, ex) ==
    [f EXCEPT !.ex_queue = Append(@, ex)]

\* except Exception as e: self.ex_queue.put(e); run_flag = False
OnFeedException(f, ex) ==
    [f EXCEPT !.ex_queue = Append(@, ex), !.run_flag = FALSE]

\* return self.ex_queue.empty()
cwdt_is_feed_thread_running(f) == f.ex_queue = <<>>

\* self.cmd_queue.put(c); limit and flimit note, for the first 'stop' put
\* while the loop runs, behind k commands, the iterations and feeds so far
\* plus k + 1
QueuePut(f, c) ==
    LET new == f.pc = "new"
        first == c = "stop" /\ f.pc \in {"while", "feed", "poll"}
                    /\ f.limit = 0
        k == Len(f.cmd_queue)
    IN  [f EXCEPT !.cmd_queue = Append(@, c),
                  !.puts = @ + 1,
                  !.early = IF new THEN @ + 1 ELSE @,
                  !.pre = IF new THEN @ + 1 ELSE @,
                  !.late = IF ~new /\ c = "stop" THEN @ + 1 ELSE @,
                  !.limit = IF first THEN f.iters + k + 1 ELSE @,
                  !.flimit = IF first THEN f.feeds + k + 1 ELSE @]

\* the owner calls stop() or update(), before or after start()
Put ==
    /\ feeder.puts < MaxCalls
    /\ \E c \in Commands : feeder' = QueuePut(feeder, c)
    /\ UNCHANGED <<tvars, cvars>>

\* the owner calls start(): run() begins
Start ==
    /\ feeder.pc = "new"
    /\ feeder' = [feeder EXCEPT !.pc = "clear"]
    /\ UNCHANGED <<tvars, cvars>>

ClearQueueSkipped ==
    /\ feeder.pc = "clear"
    /\ feeder' = [feeder EXCEPT !.run_flag = TRUE, !.feed_period = 0,
                                !.pc = "while"]
    /\ UNCHANGED <<tvars, cvars>>

\* while not self.cmd_queue.empty(): self.cmd_queue.get(); then
\* run_flag = True, feed_period = 0.0, feed_time = 0.0
ClearQueue ==
    /\ feeder.pc = "clear"
    /\ feeder' = IF feeder.cmd_queue # <<>>
                 THEN [feeder EXCEPT !.cmd_queue = Tail(@),
                                     !.pre = IF @ > 0 THEN @ - 1 ELSE @]
                 ELSE [feeder EXCEPT !.run_flag = TRUE, !.feed_period = 0,
                                     !.pc = "while"]
    /\ UNCHANGED <<tvars, cvars>>

WhileForever ==
    /\ feeder.pc = "while"
    /\ feeder.iters <= MaxCalls
    /\ feeder' = [feeder EXCEPT !.pc = IF Due(feeder) THEN "feed" ELSE "poll",
                                !.iters = @ + 1]
    /\ UNCHANGED <<tvars, cvars>>

\* while run_flag: if time.time() - feed_time > feed_period
\* (iters counts the iterations begun)
While ==
    /\ feeder.pc = "while"
    /\ feeder' = [feeder EXCEPT !.pc = IF ~feeder.run_flag THEN "done"
                                       ELSE IF Due(feeder) THEN "feed"
                                       ELSE "poll",
                                !.iters = IF feeder.run_flag THEN @ + 1
                                          ELSE @]
    /\ UNCHANGED <<tvars, cvars>>

\* feed_time = time.time(); feed_period = self.get_cwdt_period() * 0.5,
\* which raises
Feed ==
    /\ feeder.pc = "feed"
    /\ feeder.feeds < MaxCalls
    /\ LET f == [feeder EXCEPT !.feeds = @ + 1, !.failed = @ + 1,
                               !.fed = IF feeder.failed = 0
                                       THEN feeder.feeds + 1 ELSE @,
                               !.pc = "poll"]
       IN  feeder' = OnFeedException(f, get_cwdt_period)
    /\ UNCHANGED <<tvars, cvars>>

\* cmd = self.cmd_queue.get(block=True, timeout=0.01): 'stop' clears
\* run_flag, 'update' sets feed_period to 0, queue.Empty is passed over
Poll ==
    /\ feeder.pc = "poll"
    /\ feeder' =
          IF feeder.cmd_queue = <<>> THEN [feeder EXCEPT !.pc = "while"]
          ELSE LET cmd == Head(feeder.cmd_queue)
               IN  [feeder EXCEPT
                       !.cmd_queue = Tail(@),
                       !.run_flag = IF cmd = "stop" THEN FALSE ELSE @,
                       !.feed_period = IF cmd = "update" THEN 0 ELSE @,
                       !.stops = IF cmd = "stop" THEN @ + 1 ELSE @,
                       !.acted = @ \/ feeder.pre > 0,
                       !.pre = IF @ > 0 THEN @ - 1 ELSE @,
                       !.pc = "while"]
    /\ UNCHANGED <<tvars, cvars>>

InitFeeder ==
    /\ TransportIdle
    /\ CodecIdle
    /\ FeederIdle

NextFeeder ==
    \/ Put
    \/ Start
    \/ ClearQueue
    \/ While
    \/ Feed
    \/ Poll

SpecFeeder == InitFeeder /\ [][NextFeeder]_vars

\* the steps of run(): a started thread is scheduled again and again
RunStep == ClearQueue \/ While \/ Feed \/ Poll

SpecFeederFair == SpecFeeder /\ WF_vars(RunStep)

-----------------------------------------------------------------------------
(* The watchdog operations of a handle, with its feed thread *)

\* periods in seconds that owners pass
Periods == {-1, 0, 4}

WatchdogClasses == {"_i2c_hat", "i2c_hat_modules"}

\* int(value * 1000), as the halves of the value given to _set_u32_value_
Millis(value) ==
    LET ms == value * 1000
    IN  IF ms >= 0 THEN Wide(ms \div 65536, ms % 65536)
        ELSE Wide(-1, 65536 - ((-ms) % 65536))

WatchdogIn(name, cls, period) ==
    [OpIn(name, cls, CWDT_SET_PERIOD, IntRef(0), period, 0)
        EXCEPT !.wide = Millis(period)]

WatchdogCalls ==
    {WatchdogIn(n, c, p) :
        n \in {"start_feed", "set_period"}, c \in WatchdogClasses,
        p \in Periods}
    \cup {WatchdogIn("stop_feed", c, 0) : c \in WatchdogClasses}

\* cwdt_start_feed_thread(period) of i2c_hat_modules.py: ValueError if
\* period <= 0, then self.set_cwdt_period(period), a method no class
\* defines, before self.start(). Cwdt.start_feed_thread() of _i2c_hat.py
\* takes no period and tests `period < 0`, a name that is not defined.
\* Both raise before any request is built and before the thread starts.
start_feed_thread(cls, period) ==
    IF cls = "i2c_hat_modules"
    THEN IF period <= 0 THEN "ValueError"
         ELSE "AttributeError: set_cwdt_period"
    ELSE "NameError: period"

\* cwdt_stop_feed_thread() of i2c_hat_modules.py: self.set_cwdt_period(0),
\* a method no class defines, before self.cmd_queue.put('stop');
\* Cwdt.stop_feed_thread() of _i2c_hat.py: the same call, before
\* self.cwdt_feed_thread.stop(). Both raise before any request is built
\* and before anything is put on cmd_queue.
stop_feed_thread(cls) == "AttributeError: set_cwdt_period"

\* Cwdt.period = value of _i2c_hat.py: if value < 0: raise ValueError;
\* cwdt_set_period of i2c_hat_modules.py has no such test
set_period_refused(cls, value) == cls = "_i2c_hat" /\ value < 0

\* after _set_u32_value_ has returned: cwdt_set_period puts 'update' on
\* cmd_queue; in the Cwdt.period setter that call is commented out
set_period_done(cls, f) ==
    IF cls = "i2c_hat_modules" THEN QueuePut(f, "update") ELSE f

\* the owner calls a watchdog operation of the handle
WatchdogCall(t) ==
    /\ t \in threads
    /\ pc[t] = "idle"
    /\ ncalls < scenario.calls
    /\ \E h \in Hats, in \in WatchdogCalls :
          LET l == [IdleLoc EXCEPT !.op = "watchdog", !.hat = h, !.cur = in]
          IN  /\ hats[h].built
              /\ IF in.name = "start_feed"
                 THEN Finish(t, start_feed_thread(in.cls, in.arg), l)
                 ELSE IF in.name = "stop_feed"
                 THEN Finish(t, stop_feed_thread(in.cls), l)
                 ELSE IF set_period_refused(in.cls, in.arg)
                 THEN Finish(t, "ValueError", l)
                 ELSE StartOp(t, l, <<in>>)
    /\ ncalls' = ncalls + 1
    /\ UNCHANGED <<i2c_bus, periph, i2c_bus_lock, hats, threads, scenario>>
    /\ UNCHANGED <<cvars, feeder>>

\* _set_u32_value_ returns to the period setter or raises through it
WatchdogReturn(t) ==
    /\ pc[t] = "exit"
    /\ loc[t].op = "watchdog"
    /\ i2c_bus_lock' = 0
    /\ LET l == loc[t]
           c == IF l.out = "ResponseException"
                THEN [err |-> "ResponseException", ret |-> Wide(0, 0),
                      retb |-> FALSE]
                ELSE Conclude(l.cur, l.index, l.data, l.resp.data)
           m == [l EXCEPT !.hist = Append(@, Outcome(l.cur, l.index, l.data,
                                                     c, l))]
       IN  IF c.err # "none"
           THEN Finish(t, c.err, m) /\ UNCHANGED feeder
           ELSE /\ Finish(t, "ok", m)
                /\ feeder' = set_period_done(l.cur.cls, feeder)
    /\ UNCHANGED <<i2c_bus, periph, hats, threads, scenario, ncalls>>
    /\ UNCHANGED cvars

\* one owner makes two watchdog calls on a built handle whose feed thread
\* is started at any moment; the bus fails writes and answers with any
\* sampled payload
InitWatchdog ==
    /\ i2c_bus = TRUE
    /\ i2c_bus_lock = 0
    /\ periph = PeriphOff
    /\ hats = [h \in Hats |-> IF h = 1 THEN HatAfter(h, 0) ELSE NoHat]
    /\ threads = {1}
    /\ scenario = [requests |-> {}, tries |-> {}, faults |-> {"write"},
                   programs |-> {}, calls |-> 2, bus |-> "any"]
    /\ pc = [t \in Callers |-> "idle"]
    /\ loc = [t \in Callers |-> IdleLoc]
    /\ ncalls = 0
    /\ last = NoCall
    /\ CodecIdle
    /\ FeederIdle

NextWatchdog ==
    \/ \E t \in Callers :
          \/ WatchdogCall(t)
          \/ TransferStep(t)
          \/ WatchdogReturn(t)
    \/ Start
    \/ RunStep

SpecWatchdog == InitWatchdog /\ [][NextWatchdog]_vars

-----------------------------------------------------------------------------
(* Claims about the codec, checked under SpecCodec *)

\* C8: codec round trip. For every id, command and payload of bytes, the
\* encoding is 2 + len(payload) + 2 bytes long and ends with the CRC16 of the
\* bytes before it, low byte then high byte; decoding it into a frame seeded
\* with the same id and command succeeds and gives back the payload, id and
\* command unchanged.
RoundTrip ==
    (cstep \in {"encoded", "decoded"} /\ cmut = 0) =>
        LET n   == Len(craw)
            crc == calc(<<cargs.id, cargs.cmd>> \o cargs.data)
        IN  /\ n = 2 + Len(cargs.data) + 2
            /\ craw[n - 1] = crc % 256
            /\ craw[n] = crc \div 256
            /\ Slice(craw, 0, n - 2) = <<cargs.id, cargs.cmd>> \o cargs.data
            /\ cstep = "decoded" =>
                  /\ cerr = "none"
                  /\ cframe = MkFrame(cargs.id, cargs.cmd, cargs.data)

\* a frame with a payload of MaxPayload bytes went through encode and decode
RoundTripWitness ==
    /\ cstep = "decoded"
    /\ cmut = 0
    /\ cerr = "none"
    /\ Len(cframe.data) = MaxPayload
    /\ cframe.data = cargs.data

\* C9: corruption detection. Decoding the encoding of a valid frame with any
\* single byte (header, payload or checksum) changed to another byte value
\* fails with the checksum error, never succeeds and never reports an
\* unexpected id or command instead.
SingleByteCorruptionDetected ==
    (cstep = "decoded" /\ cmut # 0) => cerr = "Crc check failed"

\* the id byte was changed and decode reported the checksum
CorruptionWitness ==
    /\ cstep = "decoded"
    /\ cmut = 1
    /\ craw[1] # cargs.id
    /\ cerr = "Crc check failed"

\* C10: frame construction rejects any id, command or payload byte outside
\* [0,255] with the invalid-byte error, immediately.
ConstructionRejectsNonBytes ==
    (cstep = "built" /\ ~ArgsAreBytes(cargs)) => cerr = "ValueError"


-----------------------------------------------------------------------------
(* Properties of _transfer_ (Spec, SpecThreads) *)

Occurs(x, s) == \E k \in 1..Len(s) : s[k] = x

\* the call that ended in the step just taken was a _transfer_ that reached
\* the bus
TransferEnded == last.caller # 0 /\ last.l.op = "transfer" /\ last.l.writes >= 1

\* caller u is between the first bus write of its transfer and its return
InTransaction(u) ==
    pc[u] \in {"write", "read", "sleep", "exit"} /\ loc[u].writes >= 1

\* the step taken is a bus write or a bus read by caller t
BusAccess(t) ==
    \/ loc'[t].writes > loc[t].writes
    \/ loc'[t].reads > loc[t].reads

\* C1: bus mutual exclusion: while a transfer of one caller is between its
\* first bus write and its return (retries and sleeps included), no step of
\* another caller writes to or reads from the bus
BusMutualExclusion ==
    [][\A t \in Callers : \A u \in Callers \ {t} :
          BusAccess(t) => ~InTransaction(u)]_vars

\* one caller reads in a retry of its transfer, after a sleep, while the
\* other one, on another handle, waits for the lock
BusMutualExclusionWitness ==
    \E t \in Callers : \E u \in Callers \ {t} :
        /\ pc[t] = "read"
        /\ loc[t].sleeps >= 1
        /\ pc[u] = "acquire"
        /\ loc[u].hat # loc[t].hat

AllWritesFailed(l) ==
    /\ Len(l.exceptions) = l.writes
    /\ \A k \in 1..Len(l.exceptions) : l.exceptions[k] = "write I/O error"

\* C2: a transfer with number_of_tries >= 1 whose every bus write fails with
\* an I/O error raises I2CHatResponseException after exactly number_of_tries
\* writes
WriteFailuresExhaust ==
    (TransferEnded /\ last.l.n >= 1 /\ AllWritesFailed(last.l))
        => (last.result = "ResponseException" /\ last.l.writes = last.l.n)

WriteFailuresExhaustWitness ==
    /\ TransferEnded
    /\ last.l.n >= 2
    /\ AllWritesFailed(last.l)
    /\ last.result = "ResponseException"

\* how a transfer with a response expected ends, for an attempt budget: with
\* the frame decoded from the read of the first attempt that succeeds, which
\* is within the budget and is the last bus access, or else with
\* I2CHatResponseException after failed attempts only, the budget used up
EndsWithinBudget(result, l, budget) ==
    LET fails == Len(l.exceptions)
    IN  /\ result \in {"frame", "ResponseException"}
        /\ result = "frame" =>
              /\ fails + 1 <= budget
              /\ l.writes = fails + 1
              /\ l.reads <= l.writes
              /\ decode(MkFrame(l.req.id, l.req.cmd, <<>>), l.raw)
                    = [err |-> "none", frame |-> l.resp]
        /\ result = "ResponseException" =>
              /\ fails >= budget
              /\ l.writes = fails
              /\ l.resp = NoFrame

\* C3 as stated: the budget is number_of_tries
SharedBudgetAsStated ==
    (TransferEnded /\ last.l.rexp)
        => EndsWithinBudget(last.result, last.l, last.l.n)

\* C3: I/O failures and decode failures share one attempt budget of
\* max(1, number_of_tries): the transfer returns the frame of the first
\* attempt that succeeds within it and accesses the bus no more, or raises
\* I2CHatResponseException; it never returns a default value
SharedBudget ==
    (TransferEnded /\ last.l.rexp)
        => EndsWithinBudget(last.result, last.l,
                            IF last.l.n < 1 THEN 1 ELSE last.l.n)

\* a frame is returned by the third attempt, after a failed write and a
\* failed decode
SharedBudgetWitness ==
    /\ TransferEnded
    /\ last.l.rexp
    /\ last.result = "frame"
    /\ last.l.n = 3
    /\ Occurs("write I/O error", last.l.exceptions)
    /\ Occurs("Crc check failed", last.l.exceptions)

\* the last two bytes of raw are the CRC16 of the bytes before, low byte first
CrcValid(raw) ==
    /\ Len(raw) >= 4
    /\ LET crc == calc(SubSeq(raw, 1, Len(raw) - 2))
       IN  /\ raw[Len(raw) - 1] = crc % 256
           /\ raw[Len(raw)] = crc \div 256

\* the bytes just read by caller t carry a valid CRC and another id or command
StaleRead(t) ==
    /\ pc[t] \in {"sleep", "exit"}
    /\ loc[t].raw # <<>>
    /\ CrcValid(loc[t].raw)
    /\ (loc[t].raw[1] # loc[t].req.id \/ loc[t].raw[2] # loc[t].req.cmd)

\* C4: a frame returned by a transfer has the id and the command of the
\* request and the middle bytes of a read with a valid CRC as its payload; a
\* read with a valid CRC and another id or command is not returned: it is
\* counted as a failed attempt and retried while tries are left
EchoValidation ==
    /\ (TransferEnded /\ last.result = "frame") =>
          /\ last.l.resp.id = last.l.req.id
          /\ last.l.resp.cmd = last.l.req.cmd
          /\ CrcValid(last.l.raw)
          /\ last.l.resp.data = SubSeq(last.l.raw, 3, Len(last.l.raw) - 2)
    /\ \A t \in Callers :
          StaleRead(t) =>
              /\ loc[t].out # "frame"
              /\ loc[t].resp = NoFrame
              /\ Last(loc[t].exceptions) \in {"unexpected Id", "unexpected Command"}
              /\ loc[t].try_cnt = Len(loc[t].exceptions)
              /\ (loc[t].try_cnt < loc[t].n) = (pc[t] = "sleep")

\* a stale answer with a valid CRC was read and the transfer is about to retry
EchoValidationWitness ==
    \E t \in Callers :
        /\ StaleRead(t)
        /\ pc[t] = "sleep"
        /\ loc[t].raw[1] = StaleId(loc[t].req.id)

\* C5: without a bus (I2CHat.i2c_bus is None) a transfer fails at once with
\* BusUnavailable: one attempt at most, no sleep, no I2CHatResponseException
AbsentBusFailsFast ==
    ~i2c_bus =>
        /\ \A t \in Callers : loc[t].sleeps = 0 /\ loc[t].writes <= 1
        /\ TransferEnded => last.result = "BusUnavailable"

-----------------------------------------------------------------------------
(* Properties of I2CHat.__init__ (SpecCtor) *)

CtorEnded == last.caller # 0 /\ last.l.op = "ctor"

\* the addresses the documentation of __init__ allows
InRange(address, base) ==
    IF base = NoBase THEN 0 <= address /\ address <= 127
    ELSE base <= address /\ address <= base + 15

\* C6: __init__ raises ValueError exactly for the addresses out of
\* [base, base + 15] (out of [0, 127] without a base) and goes on for no such
\* address; a refused address causes no bus traffic
AddressValidation ==
    /\ \A t \in Callers :
          loc[t].op = "ctor" => InRange(loc[t].address, loc[t].base)
    /\ CtorEnded =>
          /\ (last.result = "ValueError")
                = ~InRange(last.l.address, last.l.base)
          /\ last.result = "ValueError" => last.l.writes = 0 /\ last.l.names = 0

\* C7: with a board name, __init__ reads the name once and raises exactly
\* when the name read does not contain the expected one; without a board
\* name it causes no bus traffic
BoardIdentityCheck ==
    CtorEnded =>
        /\ (last.l.bname # NoName /\ last.result \in {"ok", "Exception"}) =>
              /\ last.l.names = 1
              /\ (last.result = "Exception")
                    = ~IsInfix(last.l.bname, last.l.got)
        /\ last.l.bname = NoName =>
              last.l.names = 0 /\ last.l.writes = 0


-----------------------------------------------------------------------------
(* Properties of the frame id (SpecIds, SpecThreads) *)

\* caller t has built its request frame and its transfer has not returned
Outstanding(t) == pc[t] \in {"acquire", "write", "read", "sleep", "exit"}

\* no caller stands between the first store and the return of
\* _generate_frame_id_ on handle h
IdAtRest(h) ==
    \A t \in Callers : ~(loc[t].hat = h /\ pc[t] \in {"gen3", "gen4", "gen5"})

DistinctIdsUnderConcurrency ==
    /\ \A t \in Callers : \A u \in Callers \ {t} :
          (Outstanding(t) /\ Outstanding(u) /\ loc[t].hat = loc[u].hat)
              => loc[t].req.id # loc[u].req.id
    /\ \A h \in Hats :
          IdAtRest(h) =>
              hats[h].frame_id = (FirstFrameId + hats[h].issued) % 256

-----------------------------------------------------------------------------
(* Properties of the operations (SpecOps) *)

\* a call of the operation name has just ended
OpEnded(name) ==
    last.caller # 0 /\ last.l.op = "op" /\ last.l.cur.name = name

\* its transfer handed a response frame to the operation
Answered == last.l.out = "frame"

\* what the operation that has just ended returned
Returned == Last(last.l.hist)

ProtocolError == "I2CHatResponseException: unexpected format"

\* C13: _get_u32_value_ sends the command with an empty payload; a response
\* payload d of 4 bytes makes it return d[0] + d[1]*2^8 + d[2]*2^16 +
\* d[3]*2^24, one of any other length makes it raise
\* I2CHatResponseException and return nothing
GetU32Contract ==
    OpEnded("get_u32") =>
        /\ last.l.req.data = <<>>
        /\ last.l.req.cmd = last.l.cur.cmd
        /\ Answered =>
              LET d == last.l.resp.data
              IN  IF Len(d) = 4
                  THEN /\ last.result = "ok"
                       /\ Returned.ret.lo = d[1] + d[2] * 256
                       /\ Returned.ret.hi = d[3] + d[4] * 256
                  ELSE last.result = ProtocolError

\* the payload [1, 2, 3, 4] is returned as 0x04030201
GetU32ContractWitness ==
    /\ OpEnded("get_u32")
    /\ Answered
    /\ last.l.resp.data = <<1, 2, 3, 4>>
    /\ last.result = "ok"
    /\ Returned.ret = Wide(1027, 513)

\* a response payload of 10 bytes is refused
GetU32RefusesLength ==
    /\ OpEnded("get_u32")
    /\ Answered
    /\ Len(last.l.resp.data) = 10
    /\ last.result = ProtocolError

\* C14: _set_u32_value_ sends the low 32 bits of the value as 4
\* little-endian bytes and returns iff the response payload equals the
\* bytes sent; any other payload makes it raise I2CHatResponseException
SetU32EchoConfirm ==
    OpEnded("set_u32") =>
        LET v == last.l.cur.wide
        IN  /\ last.l.req.data = <<v.lo % 256, (v.lo \div 256) % 256,
                                   v.hi % 256, (v.hi \div 256) % 256>>
            /\ Answered =>
                  IF last.l.resp.data = last.l.req.data
                  THEN last.result = "ok"
                  ELSE last.result = ProtocolError

\* 0x01020304 is sent as [4, 3, 2, 1] and confirmed by its echo
SetU32EchoConfirmWitness ==
    /\ OpEnded("set_u32")
    /\ last.l.cur.wide = Wide(258, 772)
    /\ last.l.req.data = <<4, 3, 2, 1>>
    /\ Answered
    /\ last.l.resp.data = <<4, 3, 2, 1>>
    /\ last.result = "ok"

-----------------------------------------------------------------------------
(* Properties of the operations against the simulator (SpecSim) *)

\* a program of two operations has just ended and its last transfer handed
\* over a response frame
PairEnded ==
    /\ last.caller # 0
    /\ last.l.op = "op"
    /\ Len(last.l.hist) = 2
    /\ Answered

\* C15: against the simulator, setting a channel to v and then getting a
\* channel returns v for the channel set and, for any other channel, the
\* state it had before the set
SetThenGet ==
    PairEnded =>
        LET s == last.l.hist[1]
            g == last.l.hist[2]
        IN  /\ s.cur.name = "set_state" /\ g.cur.name = "get_state"
            /\ last.result = "ok"
            /\ g.retb = IF g.index = s.index THEN s.cur.val = 1
                        ELSE last.l.before[g.index]

\* channel 2, off, is set to True by its label and read back as True by
\* its index, the set having been sent twice
SetThenGetWitness ==
    /\ PairEnded
    /\ last.l.hist[1].cur.ref = StrRef(<<68, 105, 51>>)
    /\ last.l.hist[1].cur.val = 1
    /\ last.l.hist[1].writes = 2
    /\ last.l.hist[2].cur.ref = IntRef(2)
    /\ ~last.l.before[2]
    /\ last.l.hist[2].retb
    /\ last.result = "ok"

-----------------------------------------------------------------------------
(* Properties of the channel and counter operations (SpecOps) *)

\* the operation that has just ended raised before _request_frame_ and
\* touched neither the bus nor its lock
NoTraffic ==
    /\ last.l.nth = 0
    /\ last.l.req = NoFrame
    /\ last.l.writes = 0
    /\ last.l.reads = 0
    /\ last.l.ids = <<>>
    /\ i2c_bus_lock = 0

\* C16: the state of a channel is asked for with payload [index]; a
\* response payload [index, stateByte] makes the operation return
\* stateByte > 0, one of another length or with another index makes it
\* raise I2CHatResponseException
GetChannelStateContract ==
    OpEnded("get_state") =>
        \/ NoTraffic
        \/ /\ last.l.req.data = <<last.l.index>>
           /\ Answered =>
                 LET d == last.l.resp.data
                 IN  IF Len(d) = 2 /\ d[1] = last.l.index
                     THEN last.result = "ok" /\ Returned.retb = (d[2] > 0)
                     ELSE last.result = ProtocolError

\* the echo rule of the counter operations on a response payload d
CounterEcho(d, n) ==
    Len(d) = n /\ d[1] = last.l.index /\ d[2] = last.l.cur.arg

\* C17: a counter is asked for with [resolvedIndex, edgeType] and is the
\* little-endian u32 of payload bytes 2..5 of a 6-byte response that echoes
\* both; any other response makes the operation raise
\* I2CHatResponseException; a reset is decided by the same rule on its
\* 2-byte response
CounterEchoRule ==
    (OpEnded("get_counter") \/ OpEnded("reset_counter")) =>
        \/ NoTraffic
        \/ /\ last.l.req.data = <<last.l.index, last.l.cur.arg>>
           /\ Answered =>
                 LET d == last.l.resp.data
                 IN  IF last.l.cur.name = "get_counter"
                     THEN IF CounterEcho(d, 6)
                          THEN /\ last.result = "ok"
                               /\ Returned.ret.lo = d[3] + d[4] * 256
                               /\ Returned.ret.hi = d[5] + d[6] * 256
                          ELSE last.result = ProtocolError
                     ELSE IF CounterEcho(d, 2)
                          THEN last.result = "ok"
                          ELSE last.result = ProtocolError

\* what the channel references of the callers stand for, given the labels
\* "Di1", "Di2", "DI3": 0, 2, "di1" and "Di3" are channels 0, 2, 0 and 2
Resolves ==
    {<<IntRef(0), 0>>, <<IntRef(2), 2>>, <<StrRef(<<100, 105, 49>>), 0>>,
     <<StrRef(<<68, 105, 51>>), 2>>}

ValidRef(ref) == \E p \in Resolves : p[1] = ref

InvalidResetValue == "ValueError: only '0' is valid"

\* a counter of _digital.py has just been assigned a value
CounterAssigned == OpEnded("reset_counter") /\ last.l.cur.cls = "_digital"

\* C18 as stated: every value other than 0 is refused as an invalid reset
\* value
ResetValueAlwaysRefused ==
    (CounterAssigned /\ last.l.cur.val # 0) =>
        last.result = InvalidResetValue /\ NoTraffic

\* C18: assigning a value other than 0 to the counter of a valid channel
\* raises the invalid-value error with no bus traffic; assigning 0 sends
\* [index, edgeType] with the reset command
ResetValueChecked ==
    (CounterAssigned /\ ValidRef(last.l.cur.ref)) =>
        IF last.l.cur.val # 0
        THEN last.result = InvalidResetValue /\ NoTraffic
        ELSE /\ last.l.req.cmd = DI_RESET_COUNTER
             /\ last.l.req.data = <<last.l.index, last.l.cur.arg>>
             /\ last.l.writes >= 1

\* -1 assigned to the rising-edge counter of channel "Di3" is refused
ResetValueCheckedWitness ==
    /\ CounterAssigned
    /\ last.l.cur.ref = StrRef(<<68, 105, 51>>)
    /\ last.l.cur.arg = 1
    /\ last.l.cur.val = -1
    /\ last.result = InvalidResetValue
    /\ NoTraffic

ChannelOps == {"get_state", "set_state", "get_counter", "reset_counter"}

IndexOutOfRange ==
    {"ValueError: not a valid channel index",
     "IndexError: invalid channel index"}

UnknownLabel ==
    {"ValueError: not a valid channel label",
     "ValueError: invalid channel label"}

\* C19: an int in 0..count-1 resolves to itself and any other int raises
\* the index error; a label resolves, whatever its case, to its position
\* in the label table and any other str raises the label error; both
\* errors come with no bus traffic, and every request payload of a channel
\* operation starts with an index in 0..count-1
ChannelResolution ==
    /\ \A n \in ChannelOps :
          OpEnded(n) =>
              LET ref == last.l.cur.ref
              IN  IF ValidRef(ref)
                  THEN /\ <<ref, last.l.index>> \in Resolves
                       /\ last.result \notin (IndexOutOfRange \cup UnknownLabel)
                       /\ last.l.nth > 0 => last.l.req.data[1] = last.l.index
                  ELSE /\ NoTraffic
                       /\ last.result \in (IF ref.kind = "int"
                                           THEN IndexOutOfRange
                                           ELSE UnknownLabel)
    /\ \A t \in Callers :
          (Outstanding(t) /\ loc[t].op = "op" /\ loc[t].cur.name \in ChannelOps)
              => /\ loc[t].req.data[1] \in 0..(Len(ChannelLabels) - 1)
                 /\ <<loc[t].cur.ref, loc[t].req.data[1]>> \in Resolves

\* "di1" is channel 0 of the labels "Di1", "Di2", "DI3": the request
\* carries 0; and 3 is refused
ChannelResolutionWitness ==
    \E t \in Callers :
        /\ pc[t] = "write"
        /\ loc[t].cur.name = "get_counter"
        /\ loc[t].cur.ref = StrRef(<<100, 105, 49>>)
        /\ loc[t].req.data[1] = 0

-----------------------------------------------------------------------------
(* Properties of the watchdog feed thread (SpecFeeder) *)

\* C20: once a feed has raised, the feed thread has put exactly one error
\* on ex_queue, has cleared run_flag, makes no feed after the one that
\* failed and is at its last poll of cmd_queue, at the loop test that ends
\* the loop, or has returned from run()
FeederFatalError ==
    feeder.failed > 0 =>
        /\ Len(feeder.ex_queue) = 1
        /\ feeder.failed = 1
        /\ feeder.feeds = feeder.fed
        /\ ~feeder.run_flag
        /\ feeder.pc \in {"poll", "while", "done"}

\* the thread has returned from run() after its one failed feed, an update
\* command left on its queue
FeederFatalErrorWitness ==
    /\ feeder.pc = "done"
    /\ feeder.failed = 1
    /\ feeder.feeds = 1
    /\ feeder.ex_queue = <<"AttributeError">>
    /\ feeder.cmd_queue = <<"update">>

\* the feed thread is Running: started and not yet returned from run()
Running == feeder.pc \in {"clear", "while", "feed", "poll"}

\* the feed thread is Stopped: not started, or returned from run()
Stopped == feeder.pc \in {"new", "done"}

\* C21: the feed thread is Stopped and makes no feed until start(), is
\* Running after it, returns from run() only after it took a stop command
\* or a feed raised, makes no feed and stays Stopped once it has returned,
\* and a stop command put after start() is followed by its return
FeederStateMachine ==
    /\ [](feeder.pc = "new" => feeder.feeds = 0)
    /\ [][feeder.pc = "new" /\ feeder'.pc # "new" => Running']_vars
    /\ [][(Running /\ Stopped') =>
              (feeder'.pc = "done"
               /\ (feeder'.stops > 0 \/ feeder'.failed > 0))]_vars
    /\ [][feeder.pc = "done" =>
              (feeder'.pc = "done" /\ feeder'.feeds = feeder.feeds)]_vars
    /\ (feeder.late > 0) ~> (feeder.pc = "done")

\* a stop command put after start() has been taken by the loop, which has
\* returned
FeederStateMachineWitness ==
    /\ feeder.pc = "done"
    /\ feeder.late = 1
    /\ feeder.stops = 1
    /\ feeder.feeds = 1

\* C22: the first iteration feeds, and a feed made while the peripheral
\* answers succeeds: it leaves no exception, the thread keeps its period
\* (half of the positive period read back) and stays in its loop, so the
\* watchdog is re-armed again and again
FeedTiming ==
    /\ (feeder.pc = "feed" => feeder.feeds = 0 \/ Due(feeder))
    /\ (feeder.feeds > 0 =>
          /\ feeder.ex_queue = <<>>
          /\ feeder.feed_period > 0
          /\ feeder.pc # "done")

\* C25: cwdt_is_feed_thread_running() returns true exactly when the feed
\* thread is Running, and false otherwise, before the first start included
IsFeedThreadRunning == cwdt_is_feed_thread_running(feeder) <=> Running

\* a watchdog operation of the handle has just ended
WatchdogEnded(name) ==
    last.caller # 0 /\ last.l.op = "watchdog" /\ last.l.cur.name = name

\* C23: the update command the loop takes makes the feed due at the next
\* test of the loop, and a set of the watchdog period through the handle
\* that succeeds puts an update command on the feed thread's queue
UpdateCommand ==
    /\ [][(feeder.pc = "poll" /\ feeder.cmd_queue # <<>>
             /\ Head(feeder.cmd_queue) = "update") => Due(feeder')]_vars
    /\ [][(last' # last /\ WatchdogEnded("set_period")' /\ last'.result = "ok")
             => (/\ feeder'.puts = feeder.puts + 1
                 /\ Last(feeder'.cmd_queue) = "update")]_vars

\* C26: cwdt_start_feed_thread(period) with period <= 0 raises ValueError
\* without bus traffic and leaves the feed thread not started; with
\* period > 0 it sets the watchdog period on the board and returns with
\* the feed thread started
StartFeedThread ==
    WatchdogEnded("start_feed") =>
        IF last.l.cur.arg <= 0
        THEN last.result = "ValueError" /\ NoTraffic
        ELSE /\ last.result = "ok"
             /\ last.l.writes >= 1
             /\ feeder.pc # "new"

\* C24: run() starts by emptying the control queue: once the loop is
\* entered no command put before start() is left on the queue, and the
\* loop never takes (acts on) such a command
ClearOnStart ==
    /\ ~feeder.acted
    /\ (feeder.pc \in {"while", "feed", "poll", "done"} => feeder.pre = 0)

\* two commands were put before start(), and the loop is at its poll with
\* an empty queue
ClearOnStartWitness ==
    /\ feeder.early = 2
    /\ feeder.pc = "poll"
    /\ feeder.cmd_queue = <<>>
    /\ feeder.stops = 0

\* C27: each board class accepts every address of the range it documents
BoardAddressRange ==
    (CtorEnded /\ last.l.cls \in Boards /\ last.l.address \in ValidRange(last.l.cls))
        => last.result # "ValueError"

\* every exception of the transfer came from a write
OnlyWritesFailed(l) ==
    \A k \in 1..Len(l.exceptions) :
        l.exceptions[k] \in {"write I/O error", "AttributeError"}

\* C28: a transfer that expects no response (reset) never reads the bus:
\* it returns None, with the lock released, right after its first write
\* that succeeds, having retried only failed writes, or raises
\* I2CHatResponseException when the writes of all its attempts have failed
FireAndForget ==
    /\ \A t \in Callers :
          (loc[t].op = "transfer" /\ ~loc[t].rexp /\ pc[t] \in {"write", "read", "sleep", "exit"})
              => /\ pc[t] # "read"
                 /\ loc[t].reads = 0
                 /\ (loc[t].out = "none" => pc[t] = "exit")
    /\ (TransferEnded /\ ~last.l.rexp) =>
          /\ last.l.reads = 0
          /\ last.l.resp = NoFrame
          /\ i2c_bus_lock = 0
          /\ OnlyWritesFailed(last.l)
          /\ last.l.sleeps = last.l.writes - 1
          /\ \/ /\ last.result = "none"
                /\ last.l.writes = Len(last.l.exceptions) + 1
             \/ /\ last.result = "ResponseException"
                /\ last.l.writes = Len(last.l.exceptions)
                /\ last.l.writes = (IF last.l.n < 1 THEN 1 ELSE last.l.n)

\* a reset returned None after one failed write and one write that
\* succeeded
FireAndForgetWitness ==
    /\ TransferEnded
    /\ ~last.l.rexp
    /\ last.l.cmd = RESET
    /\ last.result = "none"
    /\ last.l.writes = 2
    /\ last.l.exceptions = <<"write I/O error">>

\* the bus accesses of a transfer with locals l on the handle at address a
\* so far: every write sends the encoded request, its first byte as the
\* command byte and the rest as the block; a read follows a write that
\* succeeded and nothing else, asks for the payload size + 4 bytes with
\* command byte 0xFF, and is followed by a write
Ordered(l, a) ==
    LET g == l.log
        calls(c) == {k \in 1..Len(g) : g[k].call = c}
    IN  /\ \A k \in 1..Len(g) :
              /\ g[k].address = a
              /\ g[k].call = "write" =>
                    /\ <<g[k].cmd>> \o g[k].data = encode(l.req)
                    /\ k > 1 => (g[k - 1].call = "read" \/ ~g[k - 1].ok)
              /\ g[k].call = "read" =>
                    /\ l.rexp
                    /\ g[k].cmd = 255
                    /\ g[k].size = l.rsize + 4
                    /\ k > 1 /\ g[k - 1].call = "write" /\ g[k - 1].ok
        /\ Cardinality(calls("write")) = (IF i2c_bus THEN l.writes ELSE 0)
        /\ Cardinality(calls("read")) = l.reads
        /\ l.reads <= l.writes

\* C29: each attempt of a transfer makes exactly one block write of the
\* whole encoded request (first byte as command byte, the rest as data) and
\* then at most one block read, only after that write succeeded, of the
\* expected payload size + 4 bytes with trigger byte 0xFF; no read comes
\* before the write of its attempt
StepOrder ==
    /\ \A t \in Callers :
          (loc[t].op = "transfer" /\ pc[t] \in {"write", "read", "sleep", "exit"})
              => Ordered(loc[t], hats[loc[t].hat].address)
    /\ TransferEnded => Ordered(last.l, hats[last.l.hat].address)

\* a transfer of a request with one payload byte ended with the frame of
\* its second attempt: write, read (bad checksum), write, read
StepOrderWitness ==
    /\ TransferEnded
    /\ last.result = "frame"
    /\ last.l.data = <<3>>
    /\ last.l.exceptions = <<"Crc check failed">>
    /\ Len(last.l.log) = 4
    /\ last.l.log[2].call = "read"
    /\ last.l.log[2].size = 6
    /\ last.l.log[3].call = "write"

\* an operation has just ended after its transfer returned a frame that
\* decoded (valid checksum, id and command) and whose payload failed the
\* operation's length or echo check
Mismatch ==
    /\ last.caller # 0
    /\ last.l.op = "op"
    /\ Answered
    /\ Returned.err # "none"

\* C30: a shape or echo mismatch is not retried: the operation raises the
\* protocol error "unexpected format" after one transfer with one read and
\* one write that succeeded, and the frame id counter of the handle has
\* advanced by exactly 1
MismatchNotRetried ==
    Mismatch =>
        /\ last.result = ProtocolError
        /\ Returned.err = ProtocolError
        /\ Len(last.l.hist) = 1
        /\ last.l.reads = 1
        /\ last.l.writes = Len(last.l.exceptions) + 1
        /\ hats[last.l.hat].issued = 1
        /\ hats[last.l.hat].frame_id = (FirstFrameId + 1) % 256

\* what the last bus call of a transfer with locals l shows about its last
\* attempt: the write failed, the read failed, or the bytes read did not
\* decode
LastFailure(l) ==
    LET c == l.log[Len(l.log)]
    IN  IF l.log = <<>> THEN "AttributeError"
        ELSE IF c.call = "write" THEN "write I/O error"
        ELSE IF ~c.ok THEN "read I/O error"
        ELSE decode(MkFrame(l.req.id, l.req.cmd, <<>>), l.raw).err

\* C31: the I2CHatResponseException raised after the attempts are used up
\* carries one entry per attempt, in attempt order, each with the failure
\* of that attempt; the last entry is the failure of the last attempt, an
\* I/O error or a decode error (checksum, id or command)
ExceptionCarriesFailures ==
    (TransferEnded /\ last.result = "ResponseException") =>
        LET msg == last.l.message
        IN  /\ Len(msg) = last.l.writes
            /\ Len(msg) >= 1
            /\ \A k \in 1..Len(msg) :
                  msg[k] = [try |-> k, result |-> last.l.exceptions[k]]
            /\ msg[Len(msg)].result = LastFailure(last.l)
            /\ LastFailure(last.l) \in
                  {"AttributeError", "write I/O error", "read I/O error",
                   "Crc check failed", "unexpected Id", "unexpected Command"}
            /\ Cardinality({k \in 1..Len(msg) : msg[k].result = "write I/O error"})
                  = Cardinality({k \in 1..Len(last.l.log) :
                                    last.l.log[k].call = "write" /\ ~last.l.log[k].ok})
            /\ Cardinality({k \in 1..Len(msg) : msg[k].result = "read I/O error"})
                  = Cardinality({k \in 1..Len(last.l.log) :
                                    last.l.log[k].call = "read" /\ ~last.l.log[k].ok})

\* three attempts failed in three ways, the last with a stale id
ExceptionCarriesFailuresWitness ==
    /\ TransferEnded
    /\ last.result = "ResponseException"
    /\ last.l.n = 3
    /\ last.l.message = <<[try |-> 1, result |-> "write I/O error"],
                          [try |-> 2, result |-> "Crc check failed"],
                          [try |-> 3, result |-> "unexpected Id"]>>

\* caller t is at the read of an attempt on handle h, and the step decodes
\* the bytes read
DecodesOn(t, h) ==
    /\ pc[t] = "read"
    /\ loc[t].hat = h
    /\ loc'[t].out = "frame"

\* C32: the time of the last valid transfer of a handle is None until a
\* transfer on it returns a decoded response, is set by every transfer that
\* does, and changes at no other step: not when an attempt fails, not when
\* a transfer raises, not when a transfer on another handle succeeds
LastTransferTime ==
    /\ [](\A h \in Hats :
            hats[h].issued = 0 => hats[h].transfer_time = NoTime)
    /\ [][\A h \in Hats :
            /\ (\E t \in Callers : DecodesOn(t, h))
                  => hats'[h].transfer_time = Now /\ Now # NoTime
            /\ ~(\E t \in Callers : DecodesOn(t, h))
                  => hats'[h].transfer_time = hats[h].transfer_time]_vars

\* the second handle got its time from the third call, which succeeded
\* after a failed attempt; the first handle keeps the time of the first
\* call, and the second call raised in between
LastTransferTimeWitness ==
    /\ TransferEnded
    /\ last.result = "frame"
    /\ last.l.hat = 2
    /\ Len(last.l.exceptions) = 1
    /\ hats[2].transfer_time = 4
    /\ hats[1].transfer_time = 2
    /\ hats[1].issued = 2

\* C33: the bus lock is free after every exit of _transfer_ (a response, the
\* return without response, I2CHatResponseException), is only ever held by
\* a caller inside the with block, and a caller waiting for it gets it
LockReleased ==
    /\ [](TransferEnded => i2c_bus_lock = 0)
    /\ [](\A t \in Callers :
            i2c_bus_lock = t => pc[t] \in {"write", "read", "sleep", "exit"})
    /\ \A t \in Callers : (pc[t] = "acquire") ~> (i2c_bus_lock = t)

\* the transfer of caller 1 has just raised while caller 2 waits for the
\* lock, which is free
LockReleasedWitness ==
    /\ TransferEnded
    /\ last.caller = 1
    /\ last.result = "ResponseException"
    /\ pc[2] = "acquire"
    /\ i2c_bus_lock = 0

\* the attempts a transfer may make: max(1, number_of_tries)
MostAttempts(n) == IF n < 1 THEN 1 ELSE n

\* C34: a transfer always comes to an end when every bus call returns or
\* fails: inside the with block it has made at most max(1, number_of_tries)
\* attempts, and when it leaves it has made at least one, and exactly one
\* when number_of_tries <= 0
TransferTerminates ==
    /\ [](\A t \in Callers :
            pc[t] \in {"write", "read", "sleep", "exit"} =>
                /\ loc[t].writes <= MostAttempts(loc[t].n)
                /\ loc[t].try_cnt <= loc[t].writes
                /\ pc[t] = "exit" =>
                      /\ loc[t].writes >= 1
                      /\ loc[t].n <= 0 => loc[t].writes = 1)
    /\ (pc[1] = "acquire") ~> (pc[1] = "exit")
    /\ (pc[1] = "exit") ~> (last.caller = 1 /\ pc[1] = "idle")

\* a transfer called with number_of_tries = -1 has raised after its one
\* attempt
TransferTerminatesWitness ==
    /\ last.caller = 1
    /\ last.l.op = "transfer"
    /\ last.result = "ResponseException"
    /\ last.l.n = -1
    /\ last.l.writes = 1

\* the two CRC bytes at the end of raw are not the CRC16 of the bytes before
CrcBad(raw) ==
    calc(Slice(raw, 0, Len(raw) - 2)) # Last(raw) * 256 + raw[Len(raw) - 1]

\* frames that may receive the bytes craw: with the id and the command of
\* the sender or the next ones, and with some payload already in place
Receivers ==
    {MkFrame(i, c, d) : i \in {cargs.id, (cargs.id + 1) % 256},
                        c \in {cargs.cmd, (cargs.cmd + 1) % 256},
                        d \in {<<>>, <<7>>}}

\* C35: decode checks the checksum, then the id, then the command: bytes
\* with a bad checksum and another id or command are refused with 'Crc check
\* failed', bytes with a good checksum and another id with 'unexpected Id';
\* and a refused decode leaves the id, the command and the payload of the
\* frame as they were
DecodeOrder ==
    /\ cstep = "decoded" =>
          /\ (CrcBad(craw) /\ (craw[1] # cargs.id \/ craw[2] # cargs.cmd))
                => cerr = "Crc check failed"
          /\ cerr # "none" => cframe = MkFrame(cargs.id, cargs.cmd, <<>>)
    /\ cstep = "encoded" =>
          \A f \in Receivers :
              LET r == decode(f, craw)
              IN  /\ r.err \in {"none", "Crc check failed", "unexpected Id",
                                "unexpected Command"}
                  /\ CrcBad(craw) <=> r.err = "Crc check failed"
                  /\ (~CrcBad(craw) /\ f.id # craw[1])
                        <=> r.err = "unexpected Id"
                  /\ r.err # "none" => r.frame = f
                  /\ r.err = "none" =>
                        r.frame = MkFrame(f.id, f.cmd,
                                          Slice(craw, 2, Len(craw) - 2))

\* bytes whose id was changed on the bus, so that the checksum is wrong
\* too, have been refused for the checksum
DecodeOrderWitness ==
    /\ cstep = "decoded"
    /\ cmut = 1
    /\ craw[1] # cargs.id
    /\ CrcBad(craw)
    /\ cerr = "Crc check failed"
    /\ cframe = MkFrame(cargs.id, cargs.cmd, <<>>)

\* the arguments of a channel operation that the operation must refuse
BadInput(in) ==
    /\ in.name \in ChannelOps
    /\ \/ ~ValidRef(in.ref)
       \/ in.name = "reset_counter" /\ in.cls = "_digital" /\ in.val # 0

InputErrors == IndexOutOfRange \cup UnknownLabel \cup {InvalidResetValue}

\* C36: a call with an index out of range, an unknown label or a reset
\* value other than 0 raises its input error and leaves the handles, their
\* frame id counters, the bus lock and the peripheral as they were; a call
\* that goes on sends the id that follows the id of the handle's last
\* request, calls that were refused in between not counted
RejectedCallLeavesTransport ==
    /\ [][\A t \in threads :
            (pc[t] = "idle" /\ ncalls' = ncalls + 1) =>
                IF last'.caller = t
                THEN /\ BadInput(last'.l.cur)
                     /\ last'.result \in InputErrors
                     /\ hats' = hats
                     /\ i2c_bus_lock = 0 /\ i2c_bus_lock' = 0
                     /\ periph' = periph
                     /\ pc'[t] = "idle"
                ELSE /\ ~BadInput(loc'[t].cur)
                     /\ pc'[t] = "gen1"]_vars
    /\ [](\A t \in Callers :
            pc[t] \in {"acquire", "write", "read", "sleep", "exit"} =>
                LET h == hats[loc[t].hat]
                IN  /\ loc[t].req.id = (FirstFrameId + h.issued) % 256
                    /\ h.frame_id = loc[t].req.id
                    /\ h.issued <= ncalls)

\* the second call, on the handle of the first, has been refused for its
\* reset value: the handle's counter is where the first call left it
RejectedCallLeavesTransportWitness ==
    /\ last.caller = 1
    /\ last.result = InvalidResetValue
    /\ ncalls = 2
    /\ hats[last.l.hat].issued = 1
    /\ hats[last.l.hat].frame_id = FirstFrameId + 1
    /\ i2c_bus_lock = 0

\* the second call goes on after the first was refused: it asks with the
\* first id of the handle
AcceptedAfterRejected ==
    /\ pc[1] = "exit"
    /\ ncalls = 2
    /\ hats[1].issued = 1
    /\ hats[2].issued = 0
    /\ loc[1].hat = 1
    /\ loc[1].req.id = FirstFrameId + 1

\* value mod 2^32
Mod32(v) == Wide(v.hi % 65536, v.lo)

\* 0 <= value < 2^32
InU32(v) == 0 <= v.hi /\ v.hi < 65536

\* the four bytes of a value below 2^32, lowest first
FourBytes(w) == <<w.lo % 256, w.lo \div 256, w.hi % 256, w.hi \div 256>>

\* C37: _set_u32_value_ sends the four little-endian bytes of value mod
\* 2^32, whatever the value, and succeeds when they are echoed: against a
\* peripheral that stores and echoes them, the set raises nothing but the
\* error of a transfer that ran out of tries, and the get after it returns
\* value mod 2^32, which is the value exactly when 0 <= value < 2^32
SetU32Truncates ==
    /\ \A t \in Callers :
          (pc[t] \in {"acquire", "write", "read", "sleep", "exit"}
                /\ loc[t].cur.name = "set_u32") =>
              loc[t].req.data = FourBytes(Mod32(loc[t].cur.wide))
    /\ (last.caller # 0 /\ last.l.op = "op") =>
          LET h == last.l.hist
              v == h[1].cur.wide
          IN  /\ h # <<>>
              /\ h[1].cur.name = "set_u32"
              /\ h[1].err \in {"none", "ResponseException"}
              /\ h[1].err = "none" =>
                    /\ h[1].sent = FourBytes(Mod32(v))
                    /\ periph.u32 = FourBytes(Mod32(v))
                    /\ Len(h) = 2
                    /\ h[2].cur.name = "get_u32"
                    /\ h[2].err \in {"none", "ResponseException"}
                    /\ h[2].err = "none" =>
                          /\ h[2].ret = Mod32(v)
                          /\ h[2].ret = v <=> InU32(v)

\* 2^32 has been set without an error and read back as 0, after a failed
\* write
SetU32TruncatesWitness ==
    /\ last.caller # 0
    /\ last.l.op = "op"
    /\ Len(last.l.hist) = 2
    /\ last.l.hist[1].cur.wide = Wide(65536, 0)
    /\ last.l.hist[1].err = "none"
    /\ last.l.hist[1].writes >= 2
    /\ last.l.hist[2].err = "none"
    /\ last.l.hist[2].ret = Wide(0, 0)
    /\ last.result = "ok"

\* a call of cwdt_stop_feed_thread / Cwdt.stop_feed_thread has just ended
StopFeedEnded ==
    last.caller # 0 /\ last.l.op = "watchdog" /\ last.l.cur.name = "stop_feed"

\* what a period setting that failed raises
SetPeriodFailures ==
    {"ResponseException", "I2CHatResponseException: unexpected format"}

\* C38: cwdt_stop_feed_thread asks the peripheral for watchdog period 0 and
\* puts 'stop' on cmd_queue only after the peripheral has echoed it; when
\* the setting fails the call raises that failure and puts nothing on the
\* queue
StopAfterDisable ==
    StopFeedEnded =>
        /\ last.l.writes >= 1
        /\ last.l.req.cmd = CWDT_SET_PERIOD
        /\ last.l.req.data = <<0, 0, 0, 0>>
        /\ last.result \in {"ok"} \cup SetPeriodFailures
        /\ last.result = "ok" =>
              /\ last.l.resp.data = <<0, 0, 0, 0>>
              /\ feeder.cmd_queue # <<>>
              /\ Last(feeder.cmd_queue) = "stop"

\* what the code does instead: every call raises AttributeError with no
\* request sent, and no 'stop' is ever put on cmd_queue or taken from it
StopFeedAlwaysRaises ==
    /\ StopFeedEnded =>
          /\ last.result = "AttributeError: set_cwdt_period"
          /\ last.l.writes = 0
          /\ last.l.nth = 0
    /\ \A k \in 1..Len(feeder.cmd_queue) : feeder.cmd_queue[k] # "stop"
    /\ feeder.stops = 0

\* C39: the commands leave cmd_queue in the order they were put, the loop
\* takes at most one per iteration, and each iteration makes its due test
\* (and the feed, when due) before it polls the queue; so a stop put behind
\* k pending commands while the loop runs is followed by the return of the
\* loop, within k + 1 further iterations and k + 1 further feeds
FeederQueueOrder ==
    /\ [][feeder'.cmd_queue # feeder.cmd_queue =>
            \/ \E c \in Commands :
                  feeder'.cmd_queue = Append(feeder.cmd_queue, c)
            \/ /\ feeder.cmd_queue # <<>>
               /\ feeder'.cmd_queue = Tail(feeder.cmd_queue)
               /\ feeder.pc \in {"clear", "poll"}
               /\ feeder.pc = "poll" =>
                     /\ feeder'.pc = "while"
                     /\ feeder'.iters = feeder.iters
                     /\ feeder'.run_flag =
                            (feeder.run_flag
                                /\ Head(feeder.cmd_queue) # "stop")]_vars
    /\ [][(feeder.pc # "poll" /\ feeder'.pc = "poll") =>
            \/ feeder.pc = "feed"
            \/ feeder.pc = "while" /\ feeder.run_flag /\ ~Due(feeder)]_vars
    /\ [][(feeder.pc = "while" /\ feeder'.pc = "feed") =>
            (feeder.run_flag /\ Due(feeder)
                /\ feeder'.iters = feeder.iters + 1)]_vars
    /\ [](feeder.limit > 0 =>
            /\ feeder.iters <= feeder.limit
            /\ feeder.feeds <= feeder.flimit)
    /\ (feeder.limit > 0) ~> (feeder.pc = "done")

\* a stop put on the empty queue during the first iteration has been
\* taken by the poll of that iteration, and the loop has returned
FeederQueueOrderWitness ==
    /\ feeder.pc = "done"
    /\ feeder.limit = 2
    /\ feeder.iters = 1
    /\ feeder.stops = 1
    /\ feeder.cmd_queue = <<>>

====
